---- MODULE Spec2Model ----
(***************************************************************************)
(* A model of the Cover Art Archive backup: the SQLite ledger and the     *)
(* methods of its datastore (store.py), the Download Engine and its worker *)
(* pool (caa_downloader.py), the monitor's stats read (caa_downloader.py,  *)
(* caa_monitor.py) and the importer (caa_importer.py).                     *)
(***************************************************************************)
EXTENDS Integers, Sequences, FiniteSets, Bags, TLC

\* ------------------------------------------------------------------ bounds
\* Rows of the ledger (caa_id 1..NumItems).
NumItems == 2
\* The batch_size a downloader is constructed with is drawn from 1..MaxBatch.
MaxBatch == 2
\* download_threads: the pool runs at most this many tasks at once.
MaxThreads == 2
\* run_downloader is invoked at most this many times by one process.
MaxRuns == 2
\* date_uploaded and last_import_date are drawn from 1..MaxDate.
MaxDate == 3

Items == 1 .. NumItems
\* Downloader processes that may work on the same ledger file.
Engines == {"e1", "e2"}

\* --------------------------------------------------------- CoverStatus
NOT_DOWNLOADED == 0
DOWNLOADED == 1
TEMP_ERROR == 2
PERMANENT_ERROR == 3
CoverStatus == {NOT_DOWNLOADED, DOWNLOADED, TEMP_ERROR, PERMANENT_ERROR}

\* ------------------------------------------------------------ environment
\* A response of the remote server: an HTTP status code, or NetworkError when
\* requests.get raises a RequestException that is not an HTTPError (timeout,
\* connection error).
NetworkError == 0
\* What the remote answers to the first, second, ... request for one item; the
\* last answer repeats.
Scripts ==
    { <<200>>, <<403>>, <<404>>, <<429>>, <<429, 200>>, <<500>>, <<502>>,
      <<503>>, <<503, 200>>, <<NetworkError>> }
\* The local file system under cache_dir for one item: fine, os.makedirs of
\* the target directory raises, or open() of the file raises.
Scenarios ==
    [remote : Scripts, disk : {"ok"}]
        \cup [remote : {<<200>>}, disk : {"mkdir_fails", "open_fails"}]

\* The scenarios drawn when two processes run at once.
TwoRunScenarios ==
    [remote : {<<200>>, <<404>>, <<429, 200>>}, disk : {"ok"}]
        \cup [remote : {<<200>>}, disk : {"mkdir_fails"}]

\* The n-th response of a script.
ResponseAt(script, n) ==
    IF n <= Len(script) THEN script[n] ELSE script[Len(script)]

VARIABLES
    status,         \* caa_backup.status of each row
    error,          \* caa_backup.error of each row
    env,            \* remote server and file system, per item
    fetches,        \* requests.get calls made so far, per item
    file,           \* <<>> when no file is on disk, else <<n>>: the bytes of the
                    \* n-th response (<<0>>: a file of an earlier process)
    writes,         \* completed writes of the item's file by this model's workers
    batch_size,     \* per engine: self.batch_size
    runPc,          \* per engine: the main thread's place in run_downloader
    runCount,       \* per engine: run_downloader invocations started
    total,          \* per engine: self.total
    downloaded,     \* per engine: run_downloader's local downloaded
    errors,         \* per engine: run_downloader's local errors
    tasks,          \* per engine: the futures submitted and not yet collected
    lock,           \* per engine: the holder of self.lock
    download_times, \* per engine: the deque of completion timestamps
    clock,          \* the last value time.time() returned
    statsPc,        \* per engine: the monitor's request thread in stats()
    rows,           \* the bag of caa_id values of the rows of table caa_backup
    import_timestamp, \* the last_import_date of each row of table
                    \* import_timestamp, in insertion order
    locked,         \* TRUE while another connection holds the SQLite lock
    call,           \* the datastore method a client is executing
    ret,            \* the last datastore call that ended, with its outcome
    upstream,       \* cover_art.date_uploaded of each row of the PostgreSQL
                    \* table; 0 when the table has no row with that id
    imp,            \* the importer: its place in the pass and its locals
    release_mbid,   \* caa_backup.release_mbid of each row, split on '-'
    ver,            \* the verifier: its place in run_verifier and its locals
    download_rate,  \* per engine: what get_download_rate returned last
    loader,         \* caa_backup.py: one call of CoverArtLoader._download_file
    dispatched      \* per engine: the items the run in progress has submitted
                    \* to its pool so far (kept for the properties; the
                    \* program keeps no such record)

vars ==
    << status, error, env, fetches, file, writes, batch_size, runPc, runCount,
       total, downloaded, errors, tasks, lock, download_times, clock, statsPc,
       rows, import_timestamp, locked, call, ret, upstream, imp,
       release_mbid, ver, download_rate, loader, dispatched >>

ledgerVars == << status, error >>
storeVars == << rows, import_timestamp, locked, call, ret >>
syncVars == << upstream, imp >>
verifyVars == << release_mbid, ver >>
diskVars == << fetches, file, writes >>
monitorVars == << lock, download_times, clock, statsPc >>
counterVars == << total, downloaded, errors >>

\* deque(maxlen=25)
DownloadTimesMaxLen == 25

\* ------------------------------------------------------------ the ledger
\* release_mbid orders get_batch; every item has a release of its own, and
\* the order of the mbids is the reverse of the order of the caa_ids.
MbidRank(i) == NumItems + 1 - i

RECURSIVE ByCaaId(_, _)
\* The rows of set S in the order of the primary key.
ByCaaId(S, r) ==
    IF r > NumItems THEN <<>>
    ELSE (IF r \in S THEN << r >> ELSE <<>>) \o ByCaaId(S, r + 1)

RECURSIVE ByMbid(_, _)
\* The rows of set S as a sequence ordered by release_mbid.
ByMbid(S, r) ==
    IF r > NumItems THEN <<>>
    ELSE LET here == {i \in S : MbidRank(i) = r}
         IN  (IF here = {} THEN <<>> ELSE << CHOOSE i \in here : TRUE >>)
                 \o ByMbid(S, r + 1)

Min(a, b) == IF a <= b THEN a ELSE b

\* A query that has lost its WHERE clause.
get_batch_any_status(st, count) ==
    LET found == ByMbid({i \in Items : BagIn(i, rows)}, 1)
    IN  SubSeq(found, 1, Min(count, Len(found)))

\* A query that selects the rows of the two error statuses as well.
get_batch_with_errors(st, count) ==
    LET found == ByMbid({i \in Items :
                            /\ BagIn(i, rows)
                            /\ status[i] \in {st, TEMP_ERROR, PERMANENT_ERROR}}, 1)
    IN  SubSeq(found, 1, Min(count, Len(found)))

\* get_batch(status, count): SELECT ... WHERE status = st ORDER BY release_mbid
\* LIMIT count, evaluated when run_downloader tests and iterates the query.
get_batch(st, count) ==
    LET found == ByMbid({i \in Items : BagIn(i, rows) /\ status[i] = st}, 1)
    IN  SubSeq(found, 1, Min(count, Len(found)))

\* get_undownloaded_count()
get_undownloaded_count ==
    Cardinality({i \in Items : BagIn(i, rows) /\ status[i] = NOT_DOWNLOADED})

\* A save that writes the status column only.
update_status_only(i, new_status, err) ==
    /\ status' = [status EXCEPT ![i] = new_status]
    /\ error' = error

\* update(caa_id, release_mbid, new_status, error): the row exists (no
\* operation of the program deletes a row), so get() finds it and save()
\* overwrites status and error.
update(i, new_status, err) ==
    /\ status' = [status EXCEPT ![i] = new_status]
    /\ error' = [error EXCEPT ![i] = err]

\* ------------------------------------------------------------ the worker
\* raise_for_status(): an HTTPError for 400 <= code < 600.
RaisesHTTPError(code) == code >= 400 /\ code < 600

\* A classification that takes only "not found" for permanent.
ClassifyFailureOnly404(code) ==
    IF code = 404 THEN PERMANENT_ERROR ELSE TEMP_ERROR

\* A classification whose 4xx test has lost its upper limit.
ClassifyFailureNoUpperLimit(code) ==
    IF code = NetworkError THEN TEMP_ERROR
    ELSE IF 400 <= code THEN PERMANENT_ERROR
    ELSE TEMP_ERROR

\* The except clauses of _download_and_save_record for a failed request: the
\* status the worker records.
ClassifyFailure(code) ==
    IF code = NetworkError THEN TEMP_ERROR
    ELSE IF 400 <= code /\ code < 500 THEN PERMANENT_ERROR
    ELSE TEMP_ERROR

ErrorText(code) == IF code = NetworkError THEN "request" ELSE "http"

Task(i) == [item |-> i, pc |-> "queued", new_status |-> DOWNLOADED,
            err |-> "none", attempts |-> 0]

Running(e) ==
    {k \in 1 .. Len(tasks[e]) :
        tasks[e][k].pc \in {"fetch", "update", "sleep", "lock", "append"}}
Finished(e) ==
    {k \in 1 .. Len(tasks[e]) :
        tasks[e][k].pc \in {"returned_ok", "returned_none", "raised"}}

SetTask(e, k, t) == tasks' = [tasks EXCEPT ![e][k] = t]

\* A pool thread takes the next queued task (the pool's queue is FIFO) and
\* runs it up to the retry loop: attribute reads, extension, os.makedirs.
\* makedirs is outside every try block: when it raises, the exception ends
\* the task and is kept in its future.
WorkerStart(e, k) ==
    /\ k \in 1 .. Len(tasks[e])
    /\ tasks[e][k].pc = "queued"
    /\ \A j \in 1 .. (k - 1) : tasks[e][j].pc # "queued"
    /\ Cardinality(Running(e)) < MaxThreads
    /\ LET t == tasks[e][k]
       IN  SetTask(e, k,
              [t EXCEPT !.pc = IF env[t.item].disk = "mkdir_fails"
                               THEN "raised" ELSE "fetch"])
    /\ UNCHANGED << storeVars, syncVars, verifyVars, download_rate, loader,
                    dispatched >>
    /\ UNCHANGED << ledgerVars, env, diskVars, batch_size, runPc, runCount,
                    counterVars, monitorVars >>

\* A handler that leaves the status of the row as it was.
UnexpectedErrorIgnored == NOT_DOWNLOADED

\* except Exception: an error that is neither an HTTPError nor another
\* RequestException (open or write raising OSError) sets TEMP_ERROR.
UnexpectedErrorStatus == TEMP_ERROR

\* A write that leaves nothing on disk.
SavedNowhere(files, i, n) == files

\* with open(filepath, 'wb') as f: f.write(response.content) -- the file of
\* item i holds the body of the n-th response when the with block is left.
Saved(files, i, n) == [files EXCEPT ![i] = <<n>>]

\* One pass of the try block up to the ledger update: requests.get,
\* raise_for_status, open and write; or the except clause that matches.
WorkerFetch(e, k) ==
    /\ k \in 1 .. Len(tasks[e])
    /\ tasks[e][k].pc = "fetch"
    /\ LET t == tasks[e][k]
           i == t.item
           n == fetches[i] + 1
           code == ResponseAt(env[i].remote, n)
           failed == code = NetworkError \/ RaisesHTTPError(code)
           written == ~failed /\ env[i].disk = "ok"
       IN  /\ fetches' = [fetches EXCEPT ![i] = n]
           /\ file' = IF written THEN Saved(file, i, n) ELSE file
           /\ writes' = IF written THEN [writes EXCEPT ![i] = @ + 1] ELSE writes
           /\ SetTask(e, k,
                 [t EXCEPT !.pc = "update",
                           !.attempts = @ + 1,
                           !.new_status =
                               IF failed THEN ClassifyFailure(code)
                               ELSE IF written THEN DOWNLOADED
                               ELSE UnexpectedErrorStatus,
                           !.err =
                               IF failed THEN ErrorText(code)
                               ELSE IF written THEN "none" ELSE "oserror"])
    /\ UNCHANGED << storeVars, syncVars, verifyVars, download_rate, loader,
                    dispatched >>
    /\ UNCHANGED << ledgerVars, env, batch_size, runPc, runCount, counterVars,
                    monitorVars >>

\* datastore.update(...) of the path taken, on a database that is not locked;
\* a failure path then returns (None, None), the success path goes on to the
\* timestamp.
WorkerUpdate(e, k) ==
    /\ k \in 1 .. Len(tasks[e])
    /\ tasks[e][k].pc = "update"
    /\ ~locked
    /\ LET t == tasks[e][k]
       IN  /\ update(t.item, t.new_status, t.err)
           /\ SetTask(e, k,
                 [t EXCEPT !.pc = IF t.new_status = DOWNLOADED
                                  THEN "lock" ELSE "returned_none"])
    /\ UNCHANGED << storeVars, syncVars, verifyVars, download_rate, loader,
                    dispatched >>
    /\ UNCHANGED << env, diskVars, batch_size, runPc, runCount, counterVars,
                    monitorVars >>

\* datastore.update(...) on a locked database: get() or save() raises
\* OperationalError "database is locked" inside update, whose own handler
\* sleeps DB_RETRY_DELAY_SECONDS and continues its while True loop.  The
\* exception never leaves update, so the worker's handler for it (retries += 1,
\* the loop over max_retries, "Max retries reached") is never entered.
WorkerUpdateLocked(e, k) ==
    /\ k \in 1 .. Len(tasks[e])
    /\ \/ /\ tasks[e][k].pc = "update"
          /\ locked
          /\ SetTask(e, k, [tasks[e][k] EXCEPT !.pc = "sleep"])
       \/ /\ tasks[e][k].pc = "sleep"
          /\ SetTask(e, k, [tasks[e][k] EXCEPT !.pc = "update"])
    /\ UNCHANGED << storeVars, syncVars, verifyVars, download_rate, loader,
                    dispatched >>
    /\ UNCHANGED << ledgerVars, env, diskVars, batch_size, runPc, runCount,
                    counterVars, monitorVars >>

\* with self.lock: (acquire)
WorkerLock(e, k) ==
    /\ k \in 1 .. Len(tasks[e])
    /\ tasks[e][k].pc = "lock"
    /\ lock[e] = "free"
    /\ lock' = [lock EXCEPT ![e] = "worker"]
    /\ SetTask(e, k, [tasks[e][k] EXCEPT !.pc = "append"])
    /\ UNCHANGED << storeVars, syncVars, verifyVars, download_rate, loader,
                    dispatched >>
    /\ UNCHANGED << ledgerVars, env, diskVars, batch_size, runPc, runCount,
                    counterVars, download_times, clock, statsPc >>

\* append on a deque that has no maxlen.
AppendNoMaxLen(q, x) == Append(q, x)

\* deque.append on a deque(maxlen=25): the oldest entry falls out when full.
Append25(q, x) ==
    IF Len(q) < DownloadTimesMaxLen THEN Append(q, x) ELSE Append(Tail(q), x)

\* self.download_times.append(time.time()), release, return (mbid, caa_id).
WorkerAppend(e, k) ==
    /\ k \in 1 .. Len(tasks[e])
    /\ tasks[e][k].pc = "append"
    /\ \E now \in {clock, clock + 1} :
          /\ clock' = now
          /\ download_times' =
                [download_times EXCEPT ![e] = Append25(@, now)]
    /\ lock' = [lock EXCEPT ![e] = "free"]
    /\ SetTask(e, k, [tasks[e][k] EXCEPT !.pc = "returned_ok"])
    /\ UNCHANGED << storeVars, syncVars, verifyVars, download_rate, loader,
                    dispatched >>
    /\ UNCHANGED << ledgerVars, env, diskVars, batch_size, runPc, runCount,
                    counterVars, statsPc >>

\* ------------------------------------------------------- run_downloader
\* run_downloader up to the loop: self.total = get_undownloaded_count(); an
\* empty count returns at once.  main() calls run_downloader again after each
\* cycle.
RunStart(e) ==
    /\ runPc[e] \in {"idle", "done"}
    /\ runCount[e] < MaxRuns
    /\ runCount' = [runCount EXCEPT ![e] = @ + 1]
    /\ total' = [total EXCEPT ![e] = get_undownloaded_count]
    /\ downloaded' = [downloaded EXCEPT ![e] = 0]
    /\ errors' = [errors EXCEPT ![e] = 0]
    /\ runPc' = [runPc EXCEPT ![e] =
                    IF get_undownloaded_count = 0 THEN "done" ELSE "claim"]
    /\ dispatched' = [dispatched EXCEPT ![e] = {}]
    /\ UNCHANGED << storeVars, syncVars, verifyVars, download_rate, loader >>
    /\ UNCHANGED << ledgerVars, env, diskVars, batch_size, tasks, monitorVars >>

RECURSIVE Submit(_)
\* executor.submit for every record of the batch, in order.
Submit(records) ==
    IF records = <<>> THEN <<>>
    ELSE << Task(Head(records)) >> \o Submit(Tail(records))

\* The head of the while loop: get_batch; an empty batch ends the run, any
\* other is submitted to the pool.
RunClaim(e) ==
    /\ runPc[e] = "claim"
    /\ LET records_to_download == get_batch(NOT_DOWNLOADED, batch_size[e])
       IN  IF records_to_download = <<>>
           THEN /\ runPc' = [runPc EXCEPT ![e] = "done"]
                /\ UNCHANGED tasks
           ELSE /\ runPc' = [runPc EXCEPT ![e] = "wait"]
                /\ tasks' = [tasks EXCEPT ![e] = @ \o Submit(records_to_download)]
    /\ dispatched' = [dispatched EXCEPT ![e] =
                        @ \cup {t.item : t \in
                                  {tasks'[e][k] : k \in 1 .. Len(tasks'[e])}}]
    /\ UNCHANGED << storeVars, syncVars, verifyVars, download_rate, loader >>
    /\ UNCHANGED << ledgerVars, env, diskVars, batch_size, runCount,
                    counterVars, monitorVars >>

Remove(s, k) == SubSeq(s, 1, k - 1) \o SubSeq(s, k + 1, Len(s))

\* A loop that leaves as_completed after the first future it yields.
BatchCollectedAfterFirst(remaining) == TRUE

\* A loop that goes back to get_batch as soon as the pool's queue is empty.
BatchCollectedWhenNoneQueued(remaining) ==
    \A k \in 1 .. Len(remaining) : remaining[k].pc # "queued"

\* as_completed has yielded every future of the batch.
BatchCollected(remaining) == remaining = <<>>

\* One turn of the as_completed loop: a finished future is taken, its result
\* counted (an exception is logged and counted nowhere); when the progress
\* interval has passed the loop logs the download rate.
RunCollect(e, k) ==
    /\ runPc[e] = "wait"
    /\ k \in Finished(e)
    /\ LET t == tasks[e][k]
           remaining == Remove(tasks[e], k)
       IN  /\ tasks' = [tasks EXCEPT ![e] = remaining]
           /\ downloaded' = [downloaded EXCEPT ![e] =
                                IF t.pc = "returned_ok" THEN @ + 1 ELSE @]
           /\ errors' = [errors EXCEPT ![e] =
                            IF t.pc = "returned_none" THEN @ + 1 ELSE @]
           /\ \E log \in BOOLEAN :
                 runPc' = [runPc EXCEPT ![e] =
                              IF log THEN "lograte"
                              ELSE IF BatchCollected(remaining) THEN "claim"
                              ELSE "wait"]
    /\ UNCHANGED << storeVars, syncVars, verifyVars, download_rate, loader,
                    dispatched >>
    /\ UNCHANGED << ledgerVars, env, diskVars, batch_size, runCount, total,
                    monitorVars >>

\* KeyboardInterrupt is raised in the main thread while it is in the loop.
\* The with statement of the pool is left through its __exit__, which is
\* shutdown(wait=True): the futures are not cancelled, and the main thread
\* waits for every one of them.
KeyboardInterrupt(e) ==
    /\ runPc[e] \in {"claim", "wait", "lograte"}
    /\ runPc' = [runPc EXCEPT ![e] = "interrupted"]
    /\ UNCHANGED << storeVars, syncVars, verifyVars, download_rate, loader,
                    dispatched >>
    /\ UNCHANGED << ledgerVars, env, diskVars, batch_size, runCount,
                    counterVars, tasks, monitorVars >>

\* shutdown(wait=True) returns when every future has finished; except
\* KeyboardInterrupt: pass, and run_downloader returns.
RunShutdown(e) ==
    /\ runPc[e] = "interrupted"
    /\ Finished(e) = 1 .. Len(tasks[e])
    /\ runPc' = [runPc EXCEPT ![e] = "done"]
    /\ tasks' = [tasks EXCEPT ![e] = <<>>]
    /\ UNCHANGED << storeVars, syncVars, verifyVars, download_rate, loader,
                    dispatched >>
    /\ UNCHANGED << ledgerVars, env, diskVars, batch_size, runCount,
                    counterVars, monitorVars >>

\* ------------------------------------------------------------ the monitor
\* self.downloaded and self.errors: set to 0 in __init__ and assigned by no
\* other statement of the program (run_downloader counts in two locals).
self_downloaded == [e \in Engines |-> 0]
self_errors == [e \in Engines |-> 0]

\* The dict stats() builds for its return statement, as far as the counters
\* go.
StatsDict(e) ==
    [total_to_download |-> total[e],
     downloaded |-> self_downloaded[e],
     download_errors |-> self_errors[e]]

\* stats(): with self.lock (acquire); the next statement calls
\* get_download_rate().
StatsAcquire(e) ==
    /\ statsPc[e] = "idle"
    /\ lock[e] = "free"
    /\ lock' = [lock EXCEPT ![e] = "stats"]
    /\ statsPc' = [statsPc EXCEPT ![e] = "get_download_rate"]
    /\ UNCHANGED << storeVars, syncVars, verifyVars, download_rate, loader,
                    dispatched >>
    /\ UNCHANGED << ledgerVars, env, diskVars, batch_size, runPc, runCount,
                    counterVars, tasks, download_times, clock >>

\* The float a / b, kept as the pair of its terms.
Quotient(a, b) == [num |-> a, den |-> b]

\* A rate that counts every entry of the deque.
get_download_rate_of_len(times) ==
    IF Len(times) < 2 THEN Quotient(0, 1)
    ELSE LET time_elapsed == times[Len(times)] - times[1]
         IN  IF time_elapsed <= 0 THEN Quotient(0, 1)
             ELSE Quotient(Len(times), time_elapsed)

\* get_download_rate, under the lock: 0.0 with fewer than two entries in the
\* deque or with no time elapsed between the first and the last, else
\* (len - 1) / time_elapsed.
get_download_rate(times) ==
    IF Len(times) < 2 THEN Quotient(0, 1)
    ELSE LET time_elapsed == times[Len(times)] - times[1]
         IN  IF time_elapsed <= 0 THEN Quotient(0, 1)
             ELSE Quotient(Len(times) - 1, time_elapsed)

\* Whether thread th of engine e stands at a call of get_download_rate.
Calls(e, th) ==
    IF th = "main" THEN runPc[e] = "lograte"
    ELSE statsPc[e] = "get_download_rate"

\* get_download_rate(): with self.lock -- threading.Lock is not reentrant, so
\* the caller waits until the lock is free, whoever holds it -- then reads the
\* deque and releases.  The main thread goes back to its loop; stats() would
\* go on to build its answer and return.
GetDownloadRate(e, th) ==
    /\ Calls(e, th)
    /\ lock[e] = "free"
    /\ IF th = "main"
       THEN /\ runPc' = [runPc EXCEPT ![e] =
                            IF BatchCollected(tasks[e]) THEN "claim" ELSE "wait"]
            /\ UNCHANGED statsPc
       ELSE /\ statsPc' = [statsPc EXCEPT ![e] = "idle"]
            /\ UNCHANGED runPc
    /\ download_rate' =
          [download_rate EXCEPT ![e] = get_download_rate(download_times[e])]
    /\ UNCHANGED << storeVars, syncVars, verifyVars, loader, dispatched >>
    /\ UNCHANGED << ledgerVars, env, diskVars, batch_size, runCount,
                    counterVars, tasks, lock, download_times, clock >>

\* ---------------------------------------------------------- specifications
WorkerStep(e, k) ==
    \/ WorkerStart(e, k)
    \/ WorkerFetch(e, k)
    \/ WorkerUpdate(e, k)
    \/ WorkerLock(e, k)
    \/ WorkerAppend(e, k)

PoolStep(e) == \E k \in 1 .. (2 * MaxBatch) : WorkerStep(e, k)

MainStep(e) ==
    \/ RunStart(e)
    \/ RunClaim(e)
    \/ \E k \in 1 .. (2 * MaxBatch) : RunCollect(e, k)
    \/ GetDownloadRate(e, "main")

StatsStep(e) == StatsAcquire(e) \/ GetDownloadRate(e, "stats")

\* ------------------------------------------- caa_backup.py: _download_file
\* The longest list of responses drawn for one call; the last one repeats.
MaxResponses == 3

\* sleep_duration = 2
InitialSleep == 2
\* if sleep_duration > 100
SleepLimit == 100

\* The status codes the branches of _download_file tell apart, and one it
\* does not handle.
LoaderCodes == {200, 403, 404, 429, 503, 500}

\* No call of _download_file is in progress.
LoaderIdle ==
    [pc |-> "off", responses |-> <<>>, sleep_duration |-> InitialSleep,
     requests |-> 0, sleeps |-> <<>>, result |-> "none"]

\* A test of the doubled wait against a limit ten times as large.
GivesUpAt1000(sleep_duration) == sleep_duration > 10 * SleepLimit

\* if sleep_duration > 100: return None, "Timeout loading image ..."
GivesUp(sleep_duration) == sleep_duration > SleepLimit

\* One turn of the while True loop of _download_file: the request, and the
\* branch of its status code.  200 returns the body; 403 and 404 return an
\* error; 429 and 503 sleep for sleep_duration, double it and return an error
\* when it has passed the limit, else go round again; any other code returns
\* an error.
DownloadFile ==
    /\ loader.pc = "request"
    /\ LET n == loader.requests + 1
           status_code == ResponseAt(loader.responses, n)
           doubled == loader.sleep_duration * 2
       IN  loader' =
             IF status_code = 200
             THEN [loader EXCEPT !.requests = n, !.pc = "returned",
                                 !.result = "file"]
             ELSE IF status_code \in {403, 404}
             THEN [loader EXCEPT !.requests = n, !.pc = "returned",
                                 !.result = "could_not_load"]
             ELSE IF status_code \in {429, 503}
             THEN [loader EXCEPT
                     !.requests = n,
                     !.sleeps = Append(@, loader.sleep_duration),
                     !.sleep_duration = doubled,
                     !.pc = IF GivesUp(doubled) THEN "returned" ELSE "request",
                     !.result = IF GivesUp(doubled) THEN "timeout" ELSE "none"]
             ELSE [loader EXCEPT !.requests = n, !.pc = "returned",
                                 !.result = "unhandled"]
    /\ UNCHANGED << ledgerVars, storeVars, syncVars, verifyVars, env, diskVars,
                    batch_size, runPc, runCount, counterVars, tasks,
                    monitorVars, download_rate, dispatched >>

\* None, where a date is expected.
NoDate == 0
Dates == 1 .. MaxDate

\* No call is in progress; no call has ended since the last one started.
NoCall == [op |-> "none", args |-> <<>>, pc |-> "none"]
NoRet ==
    [op |-> "none", args |-> <<>>, outcome |-> "none", value |-> <<>>,
     after |-> "none"]

\* No importer runs and the source is empty.
InitSyncIdle ==
    /\ upstream = [i \in Items |-> NoDate]
    /\ imp = [pc |-> "off", last_import_date |-> NoDate, cursor |-> <<>>,
              total_imported |-> 0, batch_size |-> 1, log |-> <<>>,
              previous |-> <<>>, quiet_passes |-> 0]

\* A part of a file name between two '-': letters, or the digits of a number.
Word(w) == [isdigit |-> FALSE, text |-> w, int |-> 0]
Digits(n) == [isdigit |-> TRUE, text |-> "", int |-> n]

\* A release_mbid as musicbrainz.release.gid gives it, a UUID of five parts,
\* and one of a single part.
UuidMbid == << Word("aabcd"), Word("ef"), Word("gh"), Word("ij"), Word("kl") >>
ShortMbid == << Word("aabcd") >>
Mbids == {UuidMbid, ShortMbid}

\* No verifier runs, and every release_mbid is a UUID.
InitVerifyIdle ==
    /\ release_mbid = [i \in Items |-> UuidMbid]
    /\ ver = [pc |-> "off", scanned |-> {}, on_disk_caa_ids |-> <<>>,
              runs |-> 0, before |-> <<>>, first |-> <<>>]

\* No client calls the datastore from outside the downloader.
InitStoreIdle ==
    /\ import_timestamp = <<>>
    /\ locked = FALSE
    /\ call = NoCall
    /\ ret = NoRet

\* The rows a process may find: any status; a row that is not waiting for a
\* download is never fetched, so its environment is left at the plain one.
InitLedger ==
    /\ status \in [Items -> CoverStatus]
    /\ error = [i \in Items |->
                  IF status[i] \in {TEMP_ERROR, PERMANENT_ERROR}
                  THEN "http" ELSE "none"]
    /\ env \in [Items -> Scenarios]
    /\ \A i \in Items :
          status[i] # NOT_DOWNLOADED => env[i] = [remote |-> <<200>>, disk |-> "ok"]
    /\ fetches = [i \in Items |-> 0]
    /\ writes = [i \in Items |-> 0]
    /\ file = [i \in Items |-> IF status[i] = DOWNLOADED THEN <<0>> ELSE <<>>]
    /\ rows = SetToBag(Items)

InitEngines(active) ==
    /\ batch_size \in [Engines -> 1 .. MaxBatch]
    /\ \A e \in Engines \ active : batch_size[e] = 1
    /\ runPc = [e \in Engines |-> IF e \in active THEN "idle" ELSE "off"]
    /\ runCount = [e \in Engines |-> 0]
    /\ total = [e \in Engines |-> 0]
    /\ downloaded = [e \in Engines |-> 0]
    /\ errors = [e \in Engines |-> 0]
    /\ tasks = [e \in Engines |-> <<>>]
    /\ lock = [e \in Engines |-> "free"]
    /\ download_times = [e \in Engines |-> <<>>]
    /\ clock = 0
    /\ download_rate = [e \in Engines |-> Quotient(0, 1)]
    /\ dispatched = [e \in Engines |-> {}]
    /\ loader = LoaderIdle

\* One downloader process with its monitor.
Init ==
    /\ InitLedger
    /\ InitEngines({"e1"})
    /\ statsPc = [e \in Engines |-> IF e = "e1" THEN "idle" ELSE "off"]
    /\ InitStoreIdle
    /\ InitSyncIdle
    /\ InitVerifyIdle

Next ==
    \E e \in Engines :
        \/ RunStart(e)
        \/ RunClaim(e)
        \/ \E k \in 1 .. (2 * MaxBatch) : RunCollect(e, k)
        \/ \E k \in 1 .. (2 * MaxBatch) : WorkerStep(e, k)
        \/ StatsAcquire(e)
        \/ \E th \in {"main", "stats"} : GetDownloadRate(e, th)

Spec == Init /\ [][Next]_vars

\* Two downloader processes started on the same ledger file, each with its
\* own batch_size, pool, lock and deque; their monitors receive no request.
InitTwoRuns ==
    /\ InitLedger
    /\ \A i \in Items : env[i] \in TwoRunScenarios
    /\ InitEngines(Engines)
    /\ statsPc = [e \in Engines |-> "off"]
    /\ InitStoreIdle
    /\ InitSyncIdle
    /\ InitVerifyIdle

NextEngines ==
    \E e \in Engines :
        \/ RunStart(e)
        \/ RunClaim(e)
        \/ \E k \in 1 .. (2 * MaxBatch) : RunCollect(e, k)
        \/ \E k \in 1 .. (2 * MaxBatch) : WorkerStep(e, k)
        \/ GetDownloadRate(e, "main")

SpecTwoRuns == InitTwoRuns /\ [][NextEngines]_vars

\* The threads of a process are scheduled by the operating system: a thread
\* that can take a step eventually takes it.  Requests to the monitor come
\* from outside and need not come at all.
Fairness ==
    \A e \in Engines :
        /\ WF_vars(MainStep(e))
        /\ WF_vars(StatsStep(e) /\ statsPc[e] # "idle")
        /\ \A k \in 1 .. (2 * MaxBatch) : WF_vars(WorkerStep(e, k))

\* One downloader process with its monitor, fairly scheduled.
FairSpec == Init /\ [][Next]_vars /\ Fairness

\* One downloader process whose monitor receives no request, fairly scheduled.
InitNoMonitor ==
    /\ InitLedger
    /\ InitEngines({"e1"})
    /\ statsPc = [e \in Engines |-> "off"]
    /\ InitStoreIdle
    /\ InitSyncIdle
    /\ InitVerifyIdle

FairEngineSpec == InitNoMonitor /\ [][NextEngines]_vars /\ Fairness

\* The longest deque and the latest time drawn for the rate.
MaxWindow == 3
MaxTime == 10

\* The deques of at most MaxWindow completion times, each entry no earlier
\* than the one before it.
Windows ==
    UNION {{q \in [1 .. n -> 0 .. MaxTime] :
               \A k \in 1 .. (n - 1) : q[k] <= q[k + 1]} : n \in 0 .. MaxWindow}

\* The main thread of a downloader, in its as_completed loop after the last
\* future of the batch, is about to log the download rate; the deque holds
\* the completion times of this run and of the runs before it.
InitRate ==
    /\ status = [i \in Items |-> DOWNLOADED]
    /\ error = [i \in Items |-> "none"]
    /\ env = [i \in Items |-> [remote |-> <<200>>, disk |-> "ok"]]
    /\ fetches = [i \in Items |-> 0]
    /\ writes = [i \in Items |-> 0]
    /\ file = [i \in Items |-> <<0>>]
    /\ rows = SetToBag(Items)
    /\ batch_size = [e \in Engines |-> 1]
    /\ runPc = [e \in Engines |-> IF e = "e1" THEN "lograte" ELSE "off"]
    /\ runCount = [e \in Engines |-> IF e = "e1" THEN 1 ELSE 0]
    /\ total = [e \in Engines |-> 0]
    /\ downloaded = [e \in Engines |-> 0]
    /\ errors = [e \in Engines |-> 0]
    /\ tasks = [e \in Engines |-> <<>>]
    /\ lock = [e \in Engines |-> "free"]
    /\ \E q \in Windows :
          download_times = [e \in Engines |-> IF e = "e1" THEN q ELSE <<>>]
    /\ clock = MaxTime
    /\ download_rate = [e \in Engines |-> Quotient(0, 1)]
    /\ dispatched = [e \in Engines |-> {}]
    /\ loader = LoaderIdle
    /\ statsPc = [e \in Engines |-> "off"]
    /\ InitStoreIdle
    /\ InitSyncIdle
    /\ InitVerifyIdle

NextRate == \E e \in Engines : GetDownloadRate(e, "main")

\* get_download_rate called on every deque of the bounds.
RateSpec == InitRate /\ [][NextRate]_vars

\* The deques a process may hold when a run starts: empty, as __init__
\* leaves it, or filled by the runs before with completions of time 0.
FilledWindows ==
    {[k \in 1 .. n |-> 0] :
        n \in {0, DownloadTimesMaxLen - 1, DownloadTimesMaxLen}}

\* One downloader process with its monitor, at the start of any run_downloader
\* of main()'s loop.
InitWindow ==
    /\ InitLedger
    /\ batch_size \in [Engines -> 1 .. MaxBatch]
    /\ batch_size["e2"] = 1
    /\ runPc = [e \in Engines |-> IF e = "e1" THEN "idle" ELSE "off"]
    /\ runCount = [e \in Engines |-> 0]
    /\ total = [e \in Engines |-> 0]
    /\ downloaded = [e \in Engines |-> 0]
    /\ errors = [e \in Engines |-> 0]
    /\ tasks = [e \in Engines |-> <<>>]
    /\ lock = [e \in Engines |-> "free"]
    /\ \E q \in FilledWindows :
          download_times = [e \in Engines |-> IF e = "e1" THEN q ELSE <<>>]
    /\ clock = 0
    /\ download_rate = [e \in Engines |-> Quotient(0, 1)]
    /\ dispatched = [e \in Engines |-> {}]
    /\ loader = LoaderIdle
    /\ statsPc = [e \in Engines |-> IF e = "e1" THEN "idle" ELSE "off"]
    /\ InitStoreIdle
    /\ InitSyncIdle
    /\ InitVerifyIdle

WindowSpec == InitWindow /\ [][Next]_vars

\* The lists of responses the server may give to the requests of one call.
ResponseLists ==
    UNION {[1 .. n -> LoaderCodes] : n \in 1 .. MaxResponses}

\* _download_file has been called for some URL: no downloader, importer or
\* verifier of the other programs runs.
InitLoader ==
    /\ InitLedger
    /\ status = [i \in Items |-> DOWNLOADED]
    /\ batch_size = [e \in Engines |-> 1]
    /\ runPc = [e \in Engines |-> "off"]
    /\ runCount = [e \in Engines |-> 0]
    /\ total = [e \in Engines |-> 0]
    /\ downloaded = [e \in Engines |-> 0]
    /\ errors = [e \in Engines |-> 0]
    /\ tasks = [e \in Engines |-> <<>>]
    /\ lock = [e \in Engines |-> "free"]
    /\ download_times = [e \in Engines |-> <<>>]
    /\ clock = 0
    /\ download_rate = [e \in Engines |-> Quotient(0, 1)]
    /\ dispatched = [e \in Engines |-> {}]
    /\ statsPc = [e \in Engines |-> "off"]
    /\ InitStoreIdle
    /\ InitSyncIdle
    /\ InitVerifyIdle
    /\ \E responses \in ResponseLists :
          loader = [LoaderIdle EXCEPT !.pc = "request",
                                      !.responses = responses]

LoaderSpec == InitLoader /\ [][DownloadFile]_vars

NextInterrupt ==
    \/ NextEngines
    \/ \E e \in Engines : KeyboardInterrupt(e)
    \/ \E e \in Engines : RunShutdown(e)

\* One downloader process whose main thread may be interrupted from the
\* keyboard during a run.
InterruptSpec == InitNoMonitor /\ [][NextInterrupt]_vars

\* ------------------------------------------------- the datastore's methods
\* The variables of the downloader processes, which no datastore call and no
\* importer step touches.
engineVars ==
    << env, diskVars, batch_size, runPc, runCount, counterVars, tasks,
       monitorVars, download_rate, loader, dispatched >>

Range(s) == {s[k] : k \in 1 .. Len(s)}

\* The lists of at most n caa_ids.
Lists(n) == UNION {[1 .. k -> Items] : k \in 0 .. n}

\* The bag of the caa_ids of a list of records.
BagOf(records) ==
    [i \in Range(records) |->
        Cardinality({k \in 1 .. Len(records) : records[k] = i})]

\* The calls a client makes of the methods that work on table caa_backup.
\* A call starts at the top of the method's loop.
LedgerRequests ==
    [op : {"bulk_add"}, args : {<<l>> : l \in Lists(MaxBatch)}, pc : {"try"}]
        \cup [op : {"update"},
              args : Items \X (1 .. NumItems) \X CoverStatus \X {"none", "http"},
              pc : {"try"}]
        \cup [op : {"bulk_update_downloaded_status"},
              args : {<<l>> : l \in Lists(MaxBatch)}, pc : {"try"}]
        \cup [op : {"mark_all_as_undownloaded", "get_status_counts"},
              args : {<<>>}, pc : {"try"}]
        \cup [op : {"get_batch"}, args : CoverStatus \X (1 .. MaxBatch),
              pc : {"try"}]

\* The calls a client makes of the methods that work on table
\* import_timestamp.
TimestampRequests ==
    [op : {"get_last_import_timestamp"}, args : {<<>>}, pc : {"try"}]
        \cup [op : {"update_import_timestamp"}, args : {<<d>> : d \in Dates},
              pc : {"try"}]

\* A table without its primary key.
NoPrimaryKey(records) == FALSE

\* insert_many raises IntegrityError: caa_id is the primary key, and a caa_id
\* of the list is in the table already or occurs twice in the list.
IntegrityError(records) ==
    \/ \E k \in 1 .. Len(records) : BagIn(records[k], rows)
    \/ \E j, k \in 1 .. Len(records) : j # k /\ records[j] = records[k]

\* bulk_add(records) on a database that is not locked: nothing for an empty
\* list; else one transaction inserts every record with the status the
\* importer gives it (NOT_DOWNLOADED) and no error, or, on IntegrityError, is
\* rolled back, the exception being printed and swallowed.
bulk_add(records) ==
    IF records = <<>> \/ IntegrityError(records)
    THEN UNCHANGED << rows, status, error >>
    ELSE /\ rows' = rows (+) BagOf(records)
         /\ status' = [i \in Items |->
                          IF i \in Range(records) THEN NOT_DOWNLOADED
                          ELSE status[i]]
         /\ error' = [i \in Items |->
                          IF i \in Range(records) THEN "none" ELSE error[i]]

\* An UPDATE that has lost its WHERE clause.
bulk_update_every_row(caa_ids) ==
    [i \in Items |-> IF BagIn(i, rows) THEN DOWNLOADED ELSE status[i]]

\* The status column after UPDATE caa_backup SET status = DOWNLOADED WHERE
\* caa_id IN caa_ids.
bulk_update_downloaded_status(caa_ids) ==
    [i \in Items |->
        IF BagIn(i, rows) /\ i \in Range(caa_ids) THEN DOWNLOADED
        ELSE status[i]]

\* A reset that skips the rows in an error status.
mark_pending_as_undownloaded ==
    [i \in Items |->
        IF BagIn(i, rows) /\ status[i] = DOWNLOADED THEN NOT_DOWNLOADED
        ELSE status[i]]

\* A reset that moves the rows that were not downloaded to TEMP_ERROR.
mark_all_as_other ==
    [i \in Items |->
        IF ~BagIn(i, rows) THEN status[i]
        ELSE IF status[i] = NOT_DOWNLOADED THEN TEMP_ERROR
        ELSE NOT_DOWNLOADED]

\* The status column after UPDATE caa_backup SET status = NOT_DOWNLOADED.
mark_all_as_undownloaded ==
    [i \in Items |-> IF BagIn(i, rows) THEN NOT_DOWNLOADED ELSE status[i]]

\* get_status_counts(): the number of rows in each status.
get_status_counts ==
    [st \in CoverStatus |->
        Cardinality({i \in Items : BagIn(i, rows) /\ status[i] = st})]

Max(S) == CHOOSE x \in S : \A y \in S : y <= x

\* get_last_import_timestamp(): the first row by last_import_date descending,
\* None when the table is empty.
get_last_import_timestamp ==
    IF import_timestamp = <<>> THEN NoDate ELSE Max(Range(import_timestamp))

\* A replace that forgets to delete.
KeepTimestamps(table) == table

\* ImportTimestamp.delete().execute()
DeleteTimestamps(table) == <<>>

\* update_import_timestamp(timestamp) on a database that is not locked: one
\* transaction deletes the old rows and creates the new one.
update_import_timestamp(timestamp) ==
    import_timestamp' = Append(DeleteTimestamps(import_timestamp), timestamp)

\* ----------------------------------------------- a client of the datastore
\* A method returns or raises: the call ends with that outcome.
Return(outcome, value) ==
    /\ ret' = [op |-> call.op, args |-> call.args, outcome |-> outcome,
               value |-> value, after |-> ret.op]
    /\ call' = NoCall

\* The body of the method's while loop ends without a return or a raise
\* (time.sleep(DB_RETRY_DELAY_SECONDS); continue): nothing has changed and
\* the loop goes round again.
Retry ==
    /\ call' = [call EXCEPT !.pc = "again"]
    /\ UNCHANGED ret

\* while True: the next round of the loop of the method in progress.
Again ==
    /\ call.pc = "again"
    /\ call' = [call EXCEPT !.pc = "try"]
    /\ UNCHANGED << rows, import_timestamp, locked, ret, ledgerVars, syncVars,
                    engineVars, verifyVars >>

\* What the record of a call tells of the call made before it: the client
\* remembers its last call while it makes the next one when that is the same
\* call again, a bulk_update_downloaded_status after a
\* mark_all_as_undownloaded, or a get_last_import_timestamp after an
\* update_import_timestamp.
Remembers(request) ==
    /\ ret.outcome = "returned"
    /\ \/ ret.op = request.op /\ ret.args = request.args
       \/ /\ ret.op = "mark_all_as_undownloaded"
          /\ request.op = "bulk_update_downloaded_status"
       \/ /\ ret.op = "update_import_timestamp"
          /\ request.op = "get_last_import_timestamp"

\* The client calls a method.
Call(request) ==
    /\ call = NoCall
    /\ call' = request
    /\ ret' = IF Remembers(request) THEN ret ELSE NoRet
    /\ UNCHANGED << rows, import_timestamp, locked, ledgerVars, syncVars,
                    engineVars, verifyVars >>

\* The client's process is killed inside a method.  A transaction that had
\* not been committed is rolled back by SQLite.
Interrupt ==
    /\ call # NoCall
    /\ call' = NoCall
    /\ ret' = NoRet
    /\ UNCHANGED << rows, import_timestamp, locked, ledgerVars, syncVars,
                    engineVars, verifyVars >>

\* Another connection takes the lock of the database file, and keeps it for
\* longer than the busy timeout of this client's connection.
Lock ==
    /\ ~locked
    /\ locked' = TRUE
    /\ UNCHANGED << rows, import_timestamp, call, ret, ledgerVars, syncVars,
                    engineVars, verifyVars >>

Unlock ==
    /\ locked
    /\ locked' = FALSE
    /\ UNCHANGED << rows, import_timestamp, call, ret, ledgerVars, syncVars,
                    engineVars, verifyVars >>

\* bulk_add: OperationalError is not caught and reaches the caller.
BulkAdd ==
    /\ call.op = "bulk_add" /\ call.pc = "try"
    /\ IF locked /\ call.args[1] # <<>>
       THEN /\ Return("OperationalError", <<>>)
            /\ UNCHANGED << rows, status, error >>
       ELSE /\ bulk_add(call.args[1])
            /\ Return("returned", <<>>)
    /\ UNCHANGED << import_timestamp, locked, syncVars, engineVars, verifyVars >>

\* update: the row is looked up by caa_id and release_mbid.  When it is
\* found, it is saved with the new status and error and the method returns.
\* When it is not found, DoesNotExist is caught and printed, and the handler
\* neither returns nor raises: the while loop goes round again.  While the
\* database is locked the method sleeps and tries again.
Update ==
    /\ call.op = "update" /\ call.pc = "try"
    /\ LET caa_id == call.args[1]
           mbid == call.args[2]
       IN  IF ~locked /\ BagIn(caa_id, rows) /\ MbidRank(caa_id) = mbid
           THEN /\ update(caa_id, call.args[3], call.args[4])
                /\ Return("returned", <<>>)
           ELSE /\ Retry
                /\ UNCHANGED ledgerVars
    /\ UNCHANGED << rows, import_timestamp, locked, syncVars, engineVars, verifyVars >>

\* bulk_update_downloaded_status: returns at once for an empty list, else
\* tries the UPDATE until the database is not locked.
BulkUpdateDownloadedStatus ==
    /\ call.op = "bulk_update_downloaded_status" /\ call.pc = "try"
    /\ IF call.args[1] = <<>>
       THEN /\ Return("returned", <<>>)
            /\ UNCHANGED status
       ELSE IF locked
       THEN /\ Retry
            /\ UNCHANGED status
       ELSE /\ status' = bulk_update_downloaded_status(call.args[1])
            /\ Return("returned", <<>>)
    /\ UNCHANGED << rows, error, import_timestamp, locked, syncVars,
                    engineVars, verifyVars >>

\* mark_all_as_undownloaded: tries the UPDATE until the database is not locked.
MarkAllAsUndownloaded ==
    /\ call.op = "mark_all_as_undownloaded" /\ call.pc = "try"
    /\ IF locked
       THEN /\ Retry
            /\ UNCHANGED status
       ELSE /\ status' = mark_all_as_undownloaded
            /\ Return("returned", <<>>)
    /\ UNCHANGED << rows, error, import_timestamp, locked, syncVars,
                    engineVars, verifyVars >>

\* get_batch returns a query that is run when the caller tests or iterates
\* it: on a locked database OperationalError is raised there, outside the
\* method's try.
GetBatch ==
    /\ call.op = "get_batch" /\ call.pc = "try"
    /\ IF locked
       THEN Return("OperationalError", <<>>)
       ELSE Return("returned", get_batch(call.args[1], call.args[2]))
    /\ UNCHANGED << rows, import_timestamp, locked, ledgerVars, syncVars,
                    engineVars, verifyVars >>

\* get_status_counts: each count is tried until the database is not locked.
GetStatusCounts ==
    /\ call.op = "get_status_counts" /\ call.pc = "try"
    /\ IF locked THEN Retry ELSE Return("returned", get_status_counts)
    /\ UNCHANGED << rows, import_timestamp, locked, ledgerVars, syncVars,
                    engineVars, verifyVars >>

\* get_last_import_timestamp: tried until the database is not locked.
GetLastImportTimestamp ==
    /\ call.op = "get_last_import_timestamp" /\ call.pc = "try"
    /\ IF locked THEN Retry ELSE Return("returned", get_last_import_timestamp)
    /\ UNCHANGED << rows, import_timestamp, locked, ledgerVars, syncVars,
                    engineVars, verifyVars >>

\* update_import_timestamp: tried until the database is not locked.
UpdateImportTimestamp ==
    /\ call.op = "update_import_timestamp" /\ call.pc = "try"
    /\ IF locked
       THEN /\ Retry
            /\ UNCHANGED import_timestamp
       ELSE /\ update_import_timestamp(call.args[1])
            /\ Return("returned", <<>>)
    /\ UNCHANGED << rows, locked, ledgerVars, syncVars, engineVars, verifyVars >>

\* A step of the method in progress.
StoreStep ==
    \/ BulkAdd
    \/ Update
    \/ BulkUpdateDownloadedStatus
    \/ MarkAllAsUndownloaded
    \/ GetBatch
    \/ GetStatusCounts
    \/ GetLastImportTimestamp
    \/ UpdateImportTimestamp
    \/ Again

\* A ledger file as earlier runs may have left it: any set of rows, each in
\* any status, and the import_timestamp table empty or with its one row.
InitStore ==
    /\ rows \in {SetToBag(S) : S \in SUBSET Items}
    /\ status \in [Items -> CoverStatus]
    /\ \A i \in Items : ~BagIn(i, rows) => status[i] = NOT_DOWNLOADED
    /\ error = [i \in Items |->
                  IF status[i] \in {TEMP_ERROR, PERMANENT_ERROR}
                  THEN "http" ELSE "none"]
    /\ import_timestamp \in {<<>>} \cup {<<d>> : d \in Dates}
    /\ locked = FALSE
    /\ call = NoCall
    /\ ret = NoRet
    /\ InitSyncIdle
    /\ env = [i \in Items |-> [remote |-> <<200>>, disk |-> "ok"]]
    /\ fetches = [i \in Items |-> 0]
    /\ writes = [i \in Items |-> 0]
    /\ file = [i \in Items |-> IF status[i] = DOWNLOADED THEN <<0>> ELSE <<>>]
    /\ InitEngines({})
    /\ statsPc = [e \in Engines |-> "off"]
    /\ InitVerifyIdle

\* The import_timestamp table is empty.
InitLedgerCalls == InitStore /\ import_timestamp = <<>>

NextLedger ==
    \/ \E request \in LedgerRequests : Call(request)
    \/ Interrupt
    \/ Lock
    \/ Unlock
    \/ BulkAdd
    \/ Update
    \/ BulkUpdateDownloadedStatus
    \/ MarkAllAsUndownloaded
    \/ GetBatch
    \/ GetStatusCounts
    \/ Again

\* One client calling the methods that work on table caa_backup, one after
\* the other.
LedgerSpec == InitLedgerCalls /\ [][NextLedger]_vars

NextTimestamp ==
    \/ \E request \in TimestampRequests : Call(request)
    \/ Interrupt
    \/ Lock
    \/ Unlock
    \/ GetLastImportTimestamp
    \/ UpdateImportTimestamp
    \/ Again

\* One client calling the methods that work on table import_timestamp, one
\* after the other.
TimestampSpec == InitStore /\ [][NextTimestamp]_vars

NextStore ==
    \/ \E request \in LedgerRequests \cup TimestampRequests : Call(request)
    \/ Interrupt
    \/ Lock
    \/ Unlock
    \/ BulkAdd
    \/ Update
    \/ BulkUpdateDownloadedStatus
    \/ MarkAllAsUndownloaded
    \/ GetBatch
    \/ GetStatusCounts
    \/ GetLastImportTimestamp
    \/ UpdateImportTimestamp
    \/ Again

\* One client calling the methods of the datastore, its thread scheduled: a
\* method that can take a step does.  Nothing is assumed of the other
\* connection, which may keep its lock.
FairStoreSpec == InitLedgerCalls /\ [][NextStore]_vars /\ WF_vars(StoreStep)

\* ------------------------------------------------------------ the importer
\* The rows of cover_art (joined with their release).
Uploaded == {i \in Items : upstream[i] # NoDate}

\* A query whose comparison takes the rows of the last import date too.
UploadedFrom(last_import_date) ==
    {i \in Uploaded : last_import_date = NoDate \/ upstream[i] >= last_import_date}

\* WHERE caa.date_uploaded > last_import_date; every row when there is no
\* last import date.
UploadedSince(last_import_date) ==
    {i \in Uploaded : last_import_date = NoDate \/ upstream[i] > last_import_date}

RECURSIVE InOrder(_)
\* The ids of set S in ascending order.
InOrder(S) ==
    IF S = {} THEN <<>>
    ELSE LET m == CHOOSE x \in S : \A y \in S : x <= y
         IN  << m >> \o InOrder(S \ {m})

RECURSIVE ByDateUploaded(_, _)
\* ORDER BY caa.date_uploaded: the rows of set S from date d on.
ByDateUploaded(S, d) ==
    IF d > MaxDate THEN <<>>
    ELSE InOrder({i \in S : upstream[i] = d}) \o ByDateUploaded(S, d + 1)

\* A query that selects MIN(date_uploaded).
fetch_earliest_date_uploaded ==
    IF Uploaded = {} THEN NoDate
    ELSE CHOOSE d \in Dates :
           /\ \E i \in Uploaded : upstream[i] = d
           /\ \A i \in Uploaded : upstream[i] >= d

\* fetch_latest_date_uploaded: SELECT MAX(date_uploaded) FROM cover_art; None
\* when the table is empty.
fetch_latest_date_uploaded ==
    IF Uploaded = {} THEN NoDate ELSE Max({upstream[i] : i \in Uploaded})

\* cursor.fetchmany(batch_size)
FetchMany(cursor, size) == SubSeq(cursor, 1, Min(size, Len(cursor)))

\* The rest of the result set after fetchmany.
AfterFetch(cursor, size) == SubSeq(cursor, Min(size, Len(cursor)) + 1, Len(cursor))

\* A pass that goes on when it has counted no record.
NeverEmpty(total_records) == FALSE

\* if total_records == 0
NoNewRecords(total_records) == total_records = 0

\* No pass of the importer is running: none has been made, or the last one
\* has returned or has raised.
ImporterIdle == imp.pc \in {"idle", "done", "no_new_records", "raised"}

\* The loop that stops at the first batch bulk_add raises for.
StopAfterError(cursor, size) == <<>>

\* run_import_incremental, the except clause around bulk_add: the error is
\* printed and the loop goes on with the batch after this one.
AfterError(cursor, size) == AfterFetch(cursor, size)

\* What the importer prints for a batch: nothing for one that bulk_add
\* inserted, the IntegrityError for one that bulk_add rolled back.
Printed(records) == IF IntegrityError(records) THEN "rejected" ELSE "added"

\* imp.quiet_passes counts, up to the second, the incremental passes started
\* since cover_art last changed; imp.log is what the pass in progress, or
\* the last one, printed batch by batch, and imp.previous what the pass
\* before it printed, remembered as long as cover_art does not change.
SecondPass == 2

\* A cover art image is uploaded: cover_art gets a row.
Upload(i, d) ==
    /\ upstream[i] = NoDate
    /\ upstream' = [upstream EXCEPT ![i] = d]
    /\ imp' = [imp EXCEPT !.quiet_passes = 0, !.previous = <<>>]
    /\ UNCHANGED << storeVars, ledgerVars, engineVars, verifyVars >>

\* A cover art image is removed: its row is deleted from cover_art.
DeleteUpload(i) ==
    /\ upstream[i] # NoDate
    /\ upstream' = [upstream EXCEPT ![i] = NoDate]
    /\ imp' = [imp EXCEPT !.quiet_passes = 0, !.previous = <<>>]
    /\ UNCHANGED << storeVars, ledgerVars, engineVars, verifyVars >>

\* run_import, called when there is no database file: the tables are
\* created and the data query is executed, ORDER BY r.gid.
RunImport ==
    /\ ImporterIdle
    /\ rows = EmptyBag /\ import_timestamp = <<>>
    /\ imp' = [imp EXCEPT !.pc = "full_fetch", !.last_import_date = NoDate,
                          !.cursor = ByMbid(Uploaded, 1),
                          !.total_imported = 0, !.log = <<>>,
                          !.previous = imp.log, !.quiet_passes = 0]
    /\ UNCHANGED << upstream, storeVars, ledgerVars, engineVars, verifyVars >>

\* run_import: one round of the loop.  A batch is fetched and handed to
\* bulk_add; after the last batch the loop is left.  The OperationalError
\* of a locked database is not caught: run_import raises it.
FullFetch ==
    /\ imp.pc = "full_fetch"
    /\ LET records == FetchMany(imp.cursor, imp.batch_size)
       IN  IF records = <<>>
           THEN /\ imp' = [imp EXCEPT !.pc = "full_max"]
                /\ UNCHANGED << rows, status, error >>
           ELSE IF locked
           THEN /\ imp' = [imp EXCEPT !.pc = "raised",
                                      !.log = Append(@, "raised")]
                /\ UNCHANGED << rows, status, error >>
           ELSE /\ bulk_add(records)
                /\ imp' = [imp EXCEPT
                             !.cursor = AfterFetch(imp.cursor, imp.batch_size),
                             !.total_imported = @ + Len(records),
                             !.log = Append(@, Printed(records))]
    /\ UNCHANGED << upstream, import_timestamp, locked, call, ret, engineVars, verifyVars >>

\* run_import: the import timestamp is set to the latest date_uploaded of
\* the source, if there is one.  update_import_timestamp tries until the
\* database is not locked.
FullMax ==
    /\ imp.pc = "full_max"
    /\ ~locked
    /\ LET latest_ts == fetch_latest_date_uploaded
       IN  IF latest_ts # NoDate
           THEN update_import_timestamp(latest_ts)
           ELSE UNCHANGED import_timestamp
    /\ imp' = [imp EXCEPT !.pc = "done"]
    /\ UNCHANGED << upstream, rows, locked, call, ret, ledgerVars, engineVars, verifyVars >>

\* run_import_incremental: the tables are created if they are missing and
\* the last import timestamp is read; get_last_import_timestamp tries until
\* the database is not locked.
IncStart ==
    /\ ImporterIdle
    /\ ~locked
    /\ imp' = [imp EXCEPT !.pc = "count",
                          !.last_import_date = get_last_import_timestamp,
                          !.cursor = <<>>, !.total_imported = 0,
                          !.log = <<>>, !.previous = imp.log,
                          !.quiet_passes = IF @ < SecondPass THEN @ + 1
                                            ELSE SecondPass]
    /\ UNCHANGED << upstream, storeVars, ledgerVars, engineVars, verifyVars >>

\* run_import_incremental: the count query; with no record to import the
\* method returns.
IncCount ==
    /\ imp.pc = "count"
    /\ LET total_records == Cardinality(UploadedSince(imp.last_import_date))
       IN  imp' = [imp EXCEPT !.pc = IF NoNewRecords(total_records)
                                     THEN "no_new_records" ELSE "query"]
    /\ UNCHANGED << upstream, storeVars, ledgerVars, engineVars, verifyVars >>

\* run_import_incremental: the data query is executed, ORDER BY
\* caa.date_uploaded.
IncQuery ==
    /\ imp.pc = "query"
    /\ imp' = [imp EXCEPT
                 !.pc = "fetch",
                 !.cursor = ByDateUploaded(UploadedSince(imp.last_import_date), 1)]
    /\ UNCHANGED << upstream, storeVars, ledgerVars, engineVars, verifyVars >>

\* run_import_incremental: one round of the loop.  bulk_add swallows
\* IntegrityError, so total_imported grows by the size of every batch that
\* bulk_add returns for; the OperationalError of a locked database is caught
\* here, and total_imported does not grow.  After the last batch the loop is
\* left, and the method is left too when total_imported is 0.
IncFetch ==
    /\ imp.pc = "fetch"
    /\ LET records == FetchMany(imp.cursor, imp.batch_size)
       IN  IF records = <<>>
           THEN /\ imp' = [imp EXCEPT !.pc = IF imp.total_imported > 0
                                             THEN "max" ELSE "done"]
                /\ UNCHANGED << rows, status, error >>
           ELSE IF locked
           THEN /\ imp' = [imp EXCEPT
                             !.cursor = AfterError(imp.cursor, imp.batch_size),
                             !.log = Append(@, "raised")]
                /\ UNCHANGED << rows, status, error >>
           ELSE /\ bulk_add(records)
                /\ imp' = [imp EXCEPT
                             !.cursor = AfterFetch(imp.cursor, imp.batch_size),
                             !.total_imported = @ + Len(records),
                             !.log = Append(@, Printed(records))]
    /\ UNCHANGED << upstream, import_timestamp, locked, call, ret, engineVars, verifyVars >>

\* run_import_incremental: the import timestamp is set to the latest
\* date_uploaded of the source, if there is one.  update_import_timestamp
\* tries until the database is not locked.
IncMax ==
    /\ imp.pc = "max"
    /\ ~locked
    /\ LET latest_ts == fetch_latest_date_uploaded
       IN  IF latest_ts # NoDate
           THEN update_import_timestamp(latest_ts)
           ELSE UNCHANGED import_timestamp
    /\ imp' = [imp EXCEPT !.pc = "done"]
    /\ UNCHANGED << upstream, rows, locked, call, ret, ledgerVars, engineVars, verifyVars >>

\* A ledger file as earlier passes and runs may have left it, or none; a
\* source with any rows; an importer constructed with some batch_size.
InitSync ==
    /\ rows \in {SetToBag(S) : S \in SUBSET Items}
    /\ status \in [Items -> CoverStatus]
    /\ \A i \in Items : ~BagIn(i, rows) => status[i] = NOT_DOWNLOADED
    /\ error = [i \in Items |->
                  IF status[i] \in {TEMP_ERROR, PERMANENT_ERROR}
                  THEN "http" ELSE "none"]
    /\ import_timestamp \in {<<>>} \cup {<<d>> : d \in Dates}
    /\ locked = FALSE
    /\ call = NoCall
    /\ ret = NoRet
    /\ upstream \in [Items -> {NoDate} \cup Dates]
    /\ imp \in [pc : {"idle"}, last_import_date : {NoDate}, cursor : {<<>>},
                total_imported : {0}, batch_size : 1 .. MaxBatch,
                log : {<<>>}, previous : {<<>>}, quiet_passes : {0}]
    /\ env = [i \in Items |-> [remote |-> <<200>>, disk |-> "ok"]]
    /\ fetches = [i \in Items |-> 0]
    /\ writes = [i \in Items |-> 0]
    /\ file = [i \in Items |-> IF status[i] = DOWNLOADED THEN <<0>> ELSE <<>>]
    /\ InitEngines({})
    /\ statsPc = [e \in Engines |-> "off"]
    /\ InitVerifyIdle

NextSync ==
    \/ Lock
    \/ Unlock
    \/ \E i \in Items, d \in Dates : Upload(i, d)
    \/ \E i \in Items : DeleteUpload(i)
    \/ RunImport
    \/ FullFetch
    \/ FullMax
    \/ IncStart
    \/ IncCount
    \/ IncQuery
    \/ IncFetch
    \/ IncMax

\* The importer making full and incremental passes, one after the other,
\* while the source changes and other connections lock the database file.
SyncSpec == InitSync /\ [][NextSync]_vars

\* ------------------------------------------------------------ the verifier
\* The name of the file of item i without its extension, split on '-': the
\* downloader names it f"{release_mbid}-{caa_id}.{extension}".
Parts(i) == release_mbid[i] \o << Digits(i) >>

\* A parse that takes the part before the last one.
CaaIdOfFifthPart(parts) ==
    IF Len(parts) >= 5 /\ parts[5].isdigit THEN << parts[5].int >> ELSE <<>>

\* _get_caa_ids_from_cache, for one file: int(parts[5]) when the name has six
\* parts or more; a name of fewer parts, or one whose sixth part is no
\* number, adds nothing to the list.
CaaIdOf(parts) ==
    IF Len(parts) >= 6 /\ parts[6].isdigit THEN << parts[6].int >> ELSE <<>>

\* The items whose file is under cache_dir.
OnDisk == {i \in Items : file[i] # <<>>}

\* chunk_list(data, size): the first chunk, and the data after it.
FirstChunk(data, size) == SubSeq(data, 1, Min(size, Len(data)))
AfterChunk(data, size) == SubSeq(data, Min(size, Len(data)) + 1, Len(data))

\* The size of a chunk (1000 in the code) and the number of verifier runs.
ChunkSize == 1
MaxVerifyRuns == 2

\* run_verifier, step 1: every row is set to NOT_DOWNLOADED.  ver.before
\* remembers the status column and the requests made as they were when the
\* run started.
VerReset ==
    /\ ver.pc \in {"idle", "done"}
    /\ ver.runs < MaxVerifyRuns
    /\ status' = mark_all_as_undownloaded
    /\ ver' = [ver EXCEPT !.pc = "scan", !.scanned = {},
                          !.on_disk_caa_ids = <<>>,
                          !.before = << status, fetches >>]
    /\ UNCHANGED << error, release_mbid, storeVars, syncVars, engineVars >>

\* run_verifier, step 2: os.walk comes to the place of the file of item i,
\* and the caa_id of the file, if there is a file, is added to the list.
\* After the last place the list is chunked, or the summary is printed when
\* the list is empty.
VerScan(i) ==
    /\ ver.pc = "scan"
    /\ i \notin ver.scanned
    /\ LET found == IF i \in OnDisk THEN CaaIdOf(Parts(i)) ELSE <<>>
           ids   == ver.on_disk_caa_ids \o found
       IN  ver' = [ver EXCEPT
                     !.scanned = @ \cup {i},
                     !.on_disk_caa_ids = ids,
                     !.pc = IF ver.scanned \cup {i} # Items THEN "scan"
                            ELSE IF ids = <<>> THEN "summary" ELSE "mark"]
    /\ UNCHANGED << ledgerVars, release_mbid, storeVars, syncVars, engineVars >>

\* run_verifier, step 3: one chunk of the list is marked DOWNLOADED.
VerMark ==
    /\ ver.pc = "mark"
    /\ LET batch == FirstChunk(ver.on_disk_caa_ids, ChunkSize)
           rest  == AfterChunk(ver.on_disk_caa_ids, ChunkSize)
       IN  /\ status' = bulk_update_downloaded_status(batch)
           /\ ver' = [ver EXCEPT !.on_disk_caa_ids = rest,
                                 !.pc = IF rest = <<>> THEN "summary"
                                        ELSE "mark"]
    /\ UNCHANGED << error, release_mbid, storeVars, syncVars, engineVars >>

\* _print_summary: the run is over.  ver.first remembers the status column
\* as the first run left it.
VerSummary ==
    /\ ver.pc = "summary"
    /\ ver' = [ver EXCEPT !.pc = "done", !.runs = @ + 1,
                          !.first = IF ver.runs = 0 THEN status ELSE @]
    /\ UNCHANGED << ledgerVars, release_mbid, storeVars, syncVars, engineVars >>

\* A ledger with any rows in any status, release_mbids of both shapes, and
\* a cache directory that holds the files of any of the items; no downloader
\* and no importer runs.
InitVerify ==
    /\ rows \in {SetToBag(S) : S \in SUBSET Items}
    /\ status \in [Items -> CoverStatus]
    /\ \A i \in Items : ~BagIn(i, rows) => status[i] = NOT_DOWNLOADED
    /\ error = [i \in Items |->
                  IF status[i] \in {TEMP_ERROR, PERMANENT_ERROR}
                  THEN "http" ELSE "none"]
    /\ file \in [Items -> {<<>>, <<0>>}]
    /\ release_mbid \in [Items -> Mbids]
    /\ ver = [pc |-> "idle", scanned |-> {}, on_disk_caa_ids |-> <<>>,
              runs |-> 0, before |-> <<>>, first |-> <<>>]
    /\ env = [i \in Items |-> [remote |-> <<200>>, disk |-> "ok"]]
    /\ fetches = [i \in Items |-> 0]
    /\ writes = [i \in Items |-> 0]
    /\ InitEngines({})
    /\ statsPc = [e \in Engines |-> "off"]
    /\ InitStoreIdle
    /\ InitSyncIdle

NextVerify ==
    \/ VerReset
    \/ \E i \in Items : VerScan(i)
    \/ VerMark
    \/ VerSummary

\* The verifier run once and again over a cache directory that does not
\* change.
VerifySpec == InitVerify /\ [][NextVerify]_vars

\* What the remote and the file system do for an item while the verifier
\* runs next to the downloader.
VerifyRunScenarios == [remote : {<<200>>, <<404>>}, disk : {"ok"}]

\* One downloader process on a ledger that agrees with the cache directory,
\* and the verifier, started once from another shell at any moment, on the
\* same ledger file and the same cache directory.
InitVerifyRun ==
    /\ InitLedger
    /\ \A i \in Items : env[i] \in VerifyRunScenarios
    /\ InitEngines({"e1"})
    /\ statsPc = [e \in Engines |-> "off"]
    /\ InitStoreIdle
    /\ InitSyncIdle
    /\ release_mbid = [i \in Items |-> UuidMbid]
    /\ ver = [pc |-> "idle", scanned |-> {}, on_disk_caa_ids |-> <<>>,
              runs |-> MaxVerifyRuns - 1, before |-> <<>>, first |-> <<>>]

NextVerifyRun ==
    \/ NextEngines
    \/ VerReset
    \/ \E i \in Items : VerScan(i)
    \/ VerMark
    \/ VerSummary

\* The steps of the verifier interleaved with the steps of the downloader's
\* main thread and workers.
VerifyRunSpec == InitVerifyRun /\ [][NextVerifyRun]_vars

NextLockRun ==
    \/ NextEngines
    \/ \E e \in Engines, k \in 1 .. (2 * MaxBatch) : WorkerUpdateLocked(e, k)
    \/ Lock
    \/ Unlock

\* One downloader process, fairly scheduled, while another connection (the
\* importer's, the verifier's) takes and releases the write lock of the
\* ledger file as it likes: the queries of the main thread read on, the
\* updates of the workers find the database locked.
FairLockRunSpec ==
    /\ InitNoMonitor
    /\ [][NextLockRun]_vars
    /\ Fairness
    /\ \A e \in Engines, k \in 1 .. (2 * MaxBatch) :
          WF_vars(WorkerUpdateLocked(e, k))

\* ------------------------------------------------------------------ claims
\* The tasks of engine e that are in flight: claimed by get_batch, submitted,
\* and their row not yet updated.
InFlight(e) ==
    {k \in 1 .. Len(tasks[e]) : tasks[e][k].pc \in {"queued", "fetch", "update"}}

\* Some task of engine e on item i is at one of the places pcs.
TaskAt(e, i, pcs) ==
    \E k \in 1 .. Len(tasks[e]) : tasks[e][k].item = i /\ tasks[e][k].pc \in pcs

\* C1 as stated: at every moment an item is in flight in at most one worker,
\* also across two downloader processes on the same ledger.
C1_AtMostOneInFlight ==
    \A e1, e2 \in Engines :
        \A k1 \in InFlight(e1), k2 \in InFlight(e2) :
            tasks[e1][k1].item = tasks[e2][k2].item => (e1 = e2 /\ k1 = k2)

\* C1 as amended: within one Download Engine run an item is in flight in at
\* most one worker at every moment (two concurrent runs may share an item).
C1_AtMostOneInFlightPerRun ==
    \A e \in Engines :
        \A k1, k2 \in InFlight(e) :
            tasks[e][k1].item = tasks[e][k2].item => k1 = k2

\* Both runs have work in flight at once, one of them two items.
C1_Witness ==
    /\ Cardinality(InFlight("e1")) = 2
    /\ InFlight("e2") # {}

\* C2: a stats read that has begun returns with the lock released, and a
\* worker that has downloaded its item appends its timestamp and returns.
C2_StatsNeverBlocks ==
    /\ (statsPc["e1"] = "get_download_rate")
           ~> (statsPc["e1"] = "idle" /\ lock["e1"] # "stats")
    /\ \A i \in Items :
           TaskAt("e1", i, {"lock"}) ~> TaskAt("e1", i, {"returned_ok"})

\* C3: every run that has entered its loop ends.
C3_RunTerminates == (runPc["e1"] = "claim") ~> (runPc["e1"] = "done")

\* C4: once a worker has raised or recorded an error for item i, every other
\* item that was waiting (and whose own worker does not raise) gets a
\* terminal status.
C4_OthersStillProcessed ==
    \A i \in Items :
        TaskAt("e1", i, {"raised", "returned_none"})
            ~> (\A j \in Items \ {i} :
                   env[j].disk # "mkdir_fails" => status[j] # NOT_DOWNLOADED)

\* C5: an item answered 429 and then 200 ends the run DOWNLOADED, its file
\* written once with the second response.
C5_RetryAfter429 ==
    \A i \in Items :
        (env[i].remote = <<429, 200>> /\ fetches[i] >= 1 /\ runPc["e1"] = "done")
            => (status[i] = DOWNLOADED /\ writes[i] = 1 /\ file[i] = <<2>>)

\* C6: an item that is always answered 429 is never PERMANENT_ERROR, and ends
\* the run TEMP_ERROR after more than one request.
C6_Persistent429 ==
    \A i \in Items :
        env[i].remote = <<429>> =>
            /\ status[i] # PERMANENT_ERROR
            /\ (fetches[i] >= 1 /\ runPc["e1"] = "done")
                   => (status[i] = TEMP_ERROR /\ fetches[i] > 1)

\* C7: an item answered 503 and then 200 ends the run DOWNLOADED; only an item
\* that is always answered 503 ends it TEMP_ERROR.
C7_Retry503 ==
    \A i \in Items :
        (fetches[i] >= 1 /\ runPc["e1"] = "done") =>
            /\ env[i].remote = <<503, 200>> => status[i] = DOWNLOADED
            /\ env[i].remote = <<503>> => status[i] = TEMP_ERROR

\* The first answer for item i is a 4xx other than 429.
Answered4xx(i) ==
    LET code == env[i].remote[1]
    IN  400 <= code /\ code < 500 /\ code # 429

\* C8: an item answered 4xx (not 429) is requested once, no file is written
\* for it, and once its worker has returned it is PERMANENT_ERROR.
C8_PermanentAfterOneFetch ==
    \A i \in Items :
        (Answered4xx(i) /\ fetches[i] >= 1) =>
            /\ fetches[i] = 1
            /\ writes[i] = 0 /\ file[i] = <<>>
            /\ \A k \in 1 .. Len(tasks["e1"]) :
                  tasks["e1"][k].item = i =>
                      /\ tasks["e1"][k].attempts = 1
                      /\ tasks["e1"][k].pc \in {"update", "returned_none"}
                      /\ tasks["e1"][k].new_status = PERMANENT_ERROR
            /\ ~TaskAt("e1", i, {"update"}) => status[i] = PERMANENT_ERROR

\* A 404 item is PERMANENT_ERROR after one request at the end of a run.
C8_Witness ==
    \E i \in Items :
        /\ env[i].remote = <<404>>
        /\ fetches[i] = 1
        /\ status[i] = PERMANENT_ERROR
        /\ runPc["e1"] = "done"

\* The first answer for item i is a 5xx other than 503, or no answer at all.
AnsweredTransient(i) ==
    LET code == env[i].remote[1]
    IN  code = NetworkError \/ (500 <= code /\ code < 600 /\ code # 503)

\* C9: an item answered 5xx (not 503), or not answered, is requested once and
\* once its worker has returned it is TEMP_ERROR.
C9_TempAfterOneFetch ==
    \A i \in Items :
        (AnsweredTransient(i) /\ fetches[i] >= 1) =>
            /\ fetches[i] = 1
            /\ \A k \in 1 .. Len(tasks["e1"]) :
                  tasks["e1"][k].item = i =>
                      /\ tasks["e1"][k].attempts = 1
                      /\ tasks["e1"][k].pc \in {"update", "returned_none"}
                      /\ tasks["e1"][k].new_status = TEMP_ERROR
            /\ ~TaskAt("e1", i, {"update"}) => status[i] = TEMP_ERROR

\* A 500 item and an unanswered item are both TEMP_ERROR after one request
\* each at the end of a run.
C9_Witness ==
    /\ runPc["e1"] = "done"
    /\ \E i, j \in Items :
          /\ env[i].remote = <<500>> /\ env[j].remote = <<NetworkError>>
          /\ fetches[i] = 1 /\ fetches[j] = 1
          /\ status[i] = TEMP_ERROR /\ status[j] = TEMP_ERROR

\* C10: every change of a row's status made while the Download Engine runs
\* leads from NOT_DOWNLOADED to DOWNLOADED, TEMP_ERROR or PERMANENT_ERROR; so
\* a DOWNLOADED row stays DOWNLOADED through every run.
C10_OnlyFromNotDownloaded ==
    [][\A i \in Items :
          /\ status'[i] # status[i] =>
                (status[i] = NOT_DOWNLOADED /\ status'[i] # NOT_DOWNLOADED)
          /\ status[i] = DOWNLOADED => status'[i] = DOWNLOADED]_vars

\* The second run has ended, a row found DOWNLOADED is still DOWNLOADED and
\* untouched, and another row was downloaded meanwhile.
C10_Witness ==
    /\ runCount["e1"] = 2 /\ runPc["e1"] = "done"
    /\ \E i, j \in Items :
          /\ file[i] = <<0>> /\ fetches[i] = 0 /\ status[i] = DOWNLOADED
          /\ fetches[j] = 1 /\ status[j] = DOWNLOADED

\* The call in progress is update(caa_id, release_mbid, ...) and no row has
\* that caa_id together with that release_mbid.
NoRecord ==
    /\ call.op = "update"
    /\ ~(BagIn(call.args[1], rows) /\ MbidRank(call.args[1]) = call.args[2])

\* C11: update called with a (caa_id, release_mbid) pair for which no record
\* exists does not hang or loop: on a database that is not locked the call
\* ends (with a NotFound error for its caller).
C11_UpdateNotFoundReturns == NoRecord ~> (call = NoCall \/ locked)

\* C12: no method of the datastore blocks indefinitely: a call in progress
\* ends, by returning or by raising after a bounded number of tries, also
\* when the database is reported locked at every try.  (A behaviour in which
\* the lock is released satisfies the formula at that moment: it speaks of
\* the behaviours in which the database stays locked.  The update of a row
\* that does not exist is left to C11.)
C12_NoCallBlocks == (call # NoCall /\ ~NoRecord) ~> (call = NoCall \/ ~locked)

\* The call in progress ends in this step by returning.
Returns(op) == call.op = op /\ ret'.op = op /\ ret'.outcome = "returned"

NoDuplicate == \A i \in Items : CopiesIn(i, rows) <= 1

\* C13: the ledger never holds two rows with the same caa_id, and bulk_add is
\* all-or-nothing: when the list contains a caa_id that is in the table
\* already, no row of the list is inserted and every row keeps its status
\* and error.
C13_UniqueAndAllOrNothing ==
    /\ []NoDuplicate
    /\ [][(/\ Returns("bulk_add")
           /\ \E k \in 1 .. Len(call.args[1]) : BagIn(call.args[1][k], rows))
          => UNCHANGED << rows, status, error >>]_vars

\* bulk_add of the list <<1, 2>> has returned on a ledger whose row 1 was
\* DOWNLOADED and which had no row 2: row 2 was not inserted and row 1 is
\* DOWNLOADED still.
C13_Witness ==
    /\ ret.op = "bulk_add" /\ ret.outcome = "returned"
    /\ ret.args = << <<1, 2>> >>
    /\ BagIn(1, rows) /\ status[1] = DOWNLOADED
    /\ ~BagIn(2, rows)

\* C14: update is idempotent and local: when it returns, the row it names has
\* exactly the given status and error and no other row has changed; and the
\* same call made again, right after the first has returned, leaves the
\* ledger as the first left it.
C14_UpdateIdempotentLocal ==
    [][Returns("update") =>
          LET i == call.args[1]
          IN  /\ status'[i] = call.args[3]
              /\ error'[i] = call.args[4]
              /\ \A j \in Items \ {i} :
                    status'[j] = status[j] /\ error'[j] = error[j]
              /\ rows' = rows
              /\ (ret.op = "update" /\ ret.args = call.args
                     /\ ret.outcome = "returned")
                    => UNCHANGED << rows, status, error >>]_vars

\* update(1, mbid of 1, TEMP_ERROR, "http") has returned, and is being made
\* again: row 1 is TEMP_ERROR with that error, row 2 is DOWNLOADED with none.
C14_Witness ==
    /\ ret.op = "update" /\ ret.outcome = "returned"
    /\ ret.args = <<1, MbidRank(1), TEMP_ERROR, "http">>
    /\ call.op = "update" /\ call.args = ret.args
    /\ status[1] = TEMP_ERROR /\ error[1] = "http"
    /\ BagIn(2, rows) /\ status[2] = DOWNLOADED /\ error[2] = "none"

\* C15: bulk_update_downloaded_status(caa_ids) sets DOWNLOADED on exactly the
\* rows whose caa_id is in caa_ids, leaves the status of every other row as it
\* was, creates no row for an id that is not in the ledger, and raises no
\* error for such an id.
C15_BulkMarksExactlyIds ==
    [][(call.op = "bulk_update_downloaded_status" /\ call' = NoCall
           /\ ret'.op = call.op)
          => /\ ret'.outcome = "returned"
             /\ rows' = rows
             /\ error' = error
             /\ \A i \in Items :
                   status'[i] =
                      IF BagIn(i, rows) /\ i \in Range(call.args[1])
                      THEN DOWNLOADED ELSE status[i]]_vars

\* bulk_update_downloaded_status(<<1, 2>>) has returned on a ledger without a
\* row 2: row 1 is DOWNLOADED and there is still no row 2.
C15_Witness ==
    /\ ret.op = "bulk_update_downloaded_status" /\ ret.outcome = "returned"
    /\ ret.args = << <<1, 2>> >>
    /\ BagIn(1, rows) /\ status[1] = DOWNLOADED
    /\ ~BagIn(2, rows)

\* C16: mark_all_as_undownloaded followed by bulk_update_downloaded_status(S)
\* yields get_status_counts()[DOWNLOADED] equal to the number of ids of S that
\* are in the ledger, and every other row counted as NOT_DOWNLOADED.
C16_ResetThenMarkCounts ==
    [][(/\ Returns("bulk_update_downloaded_status")
        /\ ret.op = "mark_all_as_undownloaded")
          => LET present == {i \in Range(call.args[1]) : BagIn(i, rows)}
             IN  /\ get_status_counts'[DOWNLOADED] = Cardinality(present)
                 /\ get_status_counts'[NOT_DOWNLOADED] =
                       BagCardinality(rows') - Cardinality(present)
                 /\ get_status_counts'[TEMP_ERROR] = 0
                 /\ get_status_counts'[PERMANENT_ERROR] = 0]_vars

\* After a reset of a ledger whose row 2 was in an error status,
\* bulk_update_downloaded_status(<<1>>) has returned: one row is counted
\* DOWNLOADED and row 2 is counted NOT_DOWNLOADED.
C16_Witness ==
    /\ ret.op = "bulk_update_downloaded_status" /\ ret.outcome = "returned"
    /\ ret.after = "mark_all_as_undownloaded"
    /\ ret.args = << <<1>> >>
    /\ error[2] = "http"
    /\ get_status_counts[DOWNLOADED] = 1
    /\ get_status_counts[NOT_DOWNLOADED] = 1

\* The rows with status st.
Matching(st) == {i \in Items : BagIn(i, rows) /\ status[i] = st}

\* C17: get_batch(status, count) returns at most count records, all of the
\* requested status, namely the first ones in the order of release_mbid: the
\* records it returns are in that order, no row of that status left out comes
\* before a returned one, and rows are left out only when count is reached.
\* It changes no row of the ledger.
C17_GetBatchFirstByMbid ==
    [][(call.op = "get_batch" /\ ret'.op = "get_batch") =>
          LET st == call.args[1]
              count == call.args[2]
              got == ret'.value
          IN  /\ UNCHANGED << rows, status, error >>
              /\ Len(got) <= count
              /\ Range(got) \subseteq Matching(st)
              /\ \A j, k \in 1 .. Len(got) :
                    j < k => MbidRank(got[j]) < MbidRank(got[k])
              /\ \A i \in Matching(st) \ Range(got), k \in 1 .. Len(got) :
                    MbidRank(got[k]) < MbidRank(i)
              /\ ret'.outcome = "returned" =>
                    Len(got) = Min(count, Cardinality(Matching(st)))]_vars

\* get_batch(NOT_DOWNLOADED, 1) has returned row 2, the first by release_mbid
\* of the two rows that are NOT_DOWNLOADED.
C17_Witness ==
    /\ ret.op = "get_batch" /\ ret.outcome = "returned"
    /\ ret.args = <<NOT_DOWNLOADED, 1>>
    /\ ret.value = <<2>>
    /\ Matching(NOT_DOWNLOADED) = {1, 2}

\* C18: the last import timestamp never decreases: over any sequence of full
\* passes, incremental passes and changes of the source, each value written
\* by update_import_timestamp is greater than or equal to the value it
\* replaces.
C18_CheckpointNeverDecreases ==
    [][get_last_import_timestamp' >= get_last_import_timestamp]_vars

\* C19: the import_timestamp table holds at most one row in every reachable
\* state, and get_last_import_timestamp returns the value of the last
\* update_import_timestamp that was completed: the value it would return
\* changes only when an update_import_timestamp returns, to that call's
\* timestamp (not when a call is retried on a locked database or
\* interrupted), and it is the value returned.
C19_OneCheckpointRow ==
    /\ [](Len(import_timestamp) <= 1)
    /\ [][IF Returns("update_import_timestamp")
          THEN get_last_import_timestamp' = call.args[1]
          ELSE get_last_import_timestamp' = get_last_import_timestamp]_vars
    /\ [][Returns("get_last_import_timestamp") =>
             /\ ret'.value = get_last_import_timestamp
             /\ ret.op = "update_import_timestamp" => ret'.value = ret.args[1]]_vars

\* update_import_timestamp(1) has returned and the get_last_import_timestamp
\* made after it has returned 1; the table has one row.
C19_Witness ==
    /\ ret.op = "get_last_import_timestamp" /\ ret.outcome = "returned"
    /\ ret.after = "update_import_timestamp"
    /\ ret.value = 1
    /\ Len(import_timestamp) = 1

\* C20: an incremental pass that finds no new record in the source returns
\* without changing the import timestamp and without changing any row of the
\* ledger: neither its start nor its count query writes, and after a count
\* of zero the method has returned.
C20_NoNewRecordsNoChange ==
    [][/\ (ImporterIdle /\ imp'.pc = "count") =>
             UNCHANGED << rows, status, error, import_timestamp >>
       /\ (/\ imp.pc = "count" /\ imp'.pc # "count"
           /\ UploadedSince(imp.last_import_date) = {})
             => /\ imp'.pc = "no_new_records"
                /\ UNCHANGED << rows, status, error, import_timestamp >>]_vars

\* An incremental pass has returned at its count of zero: the source has a
\* record, none is later than the import timestamp 2, and the ledger has a
\* DOWNLOADED row.
C20_Witness ==
    /\ imp.pc = "no_new_records"
    /\ imp.last_import_date = 2
    /\ import_timestamp = <<2>>
    /\ Uploaded # {}
    /\ \E i \in Items : BagIn(i, rows) /\ status[i] = DOWNLOADED

\* The pass printed an error for every batch it fetched: total_imported is 0
\* though records were fetched.
EveryBatchRaised(log) ==
    /\ log # <<>>
    /\ \A k \in 1 .. Len(log) : log[k] = "raised"

\* The ledger keeps its rows and their statuses in this step.
LedgerUnchanged ==
    /\ rows' = rows
    /\ get_status_counts' = get_status_counts

\* The rows of cover_art that this step adds to the ledger.
Inserted == {i \in Items : BagIn(i, rows') /\ ~BagIn(i, rows)}

C22_LaterBatchesStillInserted ==
    [][imp.pc = "fetch" =>
         LET records == FetchMany(imp.cursor, imp.batch_size)
         IN  /\ imp'.pc # "fetch" => imp.cursor = <<>>
             /\ imp'.log # imp.log =>
                  /\ imp'.pc = "fetch"
                  /\ imp'.cursor = AfterFetch(imp.cursor, imp.batch_size)
                  /\ (~locked /\ ~IntegrityError(records))
                        => \A k \in 1 .. Len(records) : BagIn(records[k], rows')]_vars

\* An incremental pass has left its loop after a batch that failed and a
\* later batch that was inserted.
C22_Witness ==
    /\ imp.pc \in {"max", "done"}
    /\ imp.last_import_date # NoDate
    /\ \E j, k \in 1 .. Len(imp.log) :
         /\ j < k
         /\ imp.log[j] \in {"raised", "rejected"}
         /\ imp.log[k] = "added"

\* A pass returns in this step.
PassReturns == imp.pc \in {"fetch", "max", "full_max"} /\ imp'.pc = "done"

\* The latest date_uploaded of cover_art, NoDate when it has no row.
LatestUploaded ==
    IF \A i \in Items : upstream[i] = NoDate THEN NoDate
    ELSE CHOOSE d \in Dates :
           /\ \E i \in Items : upstream[i] = d
           /\ \A i \in Items : upstream[i] <= d

C24_MarksExactlyRowsOnDisk ==
    ver.pc = "done" =>
        \A i \in Items :
            BagIn(i, rows) =>
                status[i] = IF i \in OnDisk THEN DOWNLOADED ELSE NOT_DOWNLOADED

\* C25: with the files under cache_dir unchanged, the status column after a
\* second run of the verifier is the status column after the first, whatever
\* the ledger was before the first.
C25_VerifyIdempotent ==
    (ver.pc = "done" /\ ver.runs = MaxVerifyRuns) => status = ver.first

\* The verifier has run twice over a ledger of two rows, one of them left
\* DOWNLOADED and one NOT_DOWNLOADED by both runs.
C25_Witness ==
    /\ ver.pc = "done" /\ ver.runs = MaxVerifyRuns
    /\ \E i, j \in Items :
         /\ BagIn(i, rows) /\ status[i] = DOWNLOADED
         /\ ver.first[i] = DOWNLOADED
         /\ BagIn(j, rows) /\ status[j] = NOT_DOWNLOADED
         /\ ver.first[j] = NOT_DOWNLOADED

\* The downloader has no run in progress and the verifier has run.
BothFinished ==
    /\ ver.pc = "done"
    /\ runPc["e1"] = "done" /\ tasks["e1"] = <<>>

\* C26: the verifier may run while a run of the downloader is active.  In
\* every interleaving, once both have finished a row is DOWNLOADED exactly
\* when its file is on disk, and at no moment has an item that was
\* DOWNLOADED when the verifier started been requested again since.
C26_VerifySafeDuringRun ==
    /\ BothFinished =>
         \A i \in Items : status[i] = DOWNLOADED <=> i \in OnDisk
    /\ ver.before # <<>> =>
         \A i \in Items :
            ver.before[1][i] = DOWNLOADED => fetches[i] = ver.before[2][i]

\* Every change this step makes to a row is the change of one update call of
\* a worker: the status and the error text of one task, written together.
WrittenByOneUpdate ==
    \A i \in Items :
        (status'[i] # status[i] \/ error'[i] # error[i]) =>
            \E e \in Engines : \E k \in 1 .. Len(tasks[e]) :
                /\ tasks[e][k].item = i /\ tasks[e][k].pc = "update"
                /\ status'[i] = tasks[e][k].new_status
                /\ error'[i] = tasks[e][k].err

\* C27: once the main thread has been interrupted during a run, no batch is
\* claimed and submitted, no item that no worker had begun is handed to a
\* worker, and every change of a row is the change of one update call.
C27_InterruptStopsDispatch ==
    [][/\ \A e \in Engines :
             runPc[e] = "interrupted" =>
                /\ Len(tasks'[e]) <= Len(tasks[e])
                /\ \A k \in 1 .. Len(tasks'[e]) :
                      tasks[e][k].pc = "queued" => tasks'[e][k].pc = "queued"
       /\ WrittenByOneUpdate]_vars

\* The items whose directory cannot be created, and those whose file cannot
\* be opened for writing.
MkdirFails == {i \in Items : env[i].disk = "mkdir_fails"}
OpenFails == {i \in Items : env[i].disk = "open_fails"}

\* A worker has returned from item i, or has raised for it, and its future
\* has not been collected yet.
WorkerLeft(i) ==
    \E e \in Engines : \E k \in Finished(e) : tasks[e][k].item = i

\* C28 as stated: an item whose worker hits a file system error, when it
\* creates the directory or when it writes the file, keeps the status
\* NOT_DOWNLOADED; it is never marked TEMP_ERROR.
C28_FilesystemErrorKeepsStatus ==
    \A i \in MkdirFails \cup OpenFails : status[i] = NOT_DOWNLOADED

\* C28 amended: an item whose directory cannot be created keeps the status
\* NOT_DOWNLOADED with no error text, its worker raising; an item whose file
\* cannot be written is NOT_DOWNLOADED until its worker's update, and from
\* then on TEMP_ERROR with the text of the exception.
C28_OnlyMkdirErrorKeepsStatus ==
    /\ \A i \in MkdirFails :
          /\ status[i] = NOT_DOWNLOADED /\ error[i] = "none"
          /\ \A e \in Engines : \A k \in 1 .. Len(tasks[e]) :
                tasks[e][k].item = i => tasks[e][k].pc \in {"queued", "raised"}
    /\ \A i \in OpenFails :
          /\ status[i] \in {NOT_DOWNLOADED, TEMP_ERROR}
          /\ WorkerLeft(i) => (status[i] = TEMP_ERROR /\ error[i] = "oserror")
          /\ status[i] = TEMP_ERROR => (error[i] = "oserror" /\ fetches[i] = 1)

\* The workers have left both items: the one whose directory could not be
\* created is NOT_DOWNLOADED, the one whose file could not be written is
\* TEMP_ERROR.
C28_Witness ==
    \E i \in MkdirFails, j \in OpenFails :
        /\ WorkerLeft(i) /\ status[i] = NOT_DOWNLOADED
        /\ WorkerLeft(j) /\ status[j] = TEMP_ERROR

\* C29: what get_download_rate returns for the deque it reads is 0 with
\* fewer than two entries, 0 when the newest entry equals the oldest, and
\* otherwise the float (len - 1) / (newest - oldest); no call divides by
\* zero; for the deque <<0, 10>> it is 0.1.
C29_DownloadRate ==
    [][\A e \in Engines :
          (runPc[e] = "lograte" /\ runPc'[e] \in {"claim", "wait"}) =>
             LET times == download_times[e]
                 newest == times[Len(times)]
                 oldest == times[1]
                 rate == download_rate'[e]
             IN  /\ rate.den # 0
                 /\ Len(times) < 2 => rate.num = 0
                 /\ (Len(times) >= 2 /\ newest = oldest) => rate.num = 0
                 /\ (Len(times) >= 2 /\ newest # oldest) =>
                       rate.num * (newest - oldest) = (Len(times) - 1) * rate.den
                 /\ times = <<0, 10>> => rate.num * 10 = rate.den]_vars

\* get_download_rate has returned 1/10 for the deque <<0, 10>>.
C29_Witness ==
    /\ runPc["e1"] = "claim"
    /\ download_times["e1"] = <<0, 10>>
    /\ download_rate["e1"] = Quotient(1, 10)

\* C30: whenever the main thread of a run stands at get_batch, every future
\* of the batches before has finished and has been collected: the run has no
\* task left, in flight or otherwise.
C30_ClaimsAfterBatchFinished ==
    \A e \in Engines : runPc[e] = "claim" => tasks[e] = <<>>

\* A run with batch_size 1 has collected the future of its first batch and
\* stands at get_batch again, with an item left to claim.
C30_Witness ==
    /\ runPc["e1"] = "claim" /\ batch_size["e1"] = 1
    /\ downloaded["e1"] + errors["e1"] >= 1
    /\ get_batch(NOT_DOWNLOADED, batch_size["e1"]) # <<>>

\* The tasks of engine e that return in this step, with k their place in the
\* list of futures (the list keeps its length: nothing is collected).
ReturnsNow(e) ==
    {k \in 1 .. Len(tasks[e]) :
        /\ Len(tasks'[e]) = Len(tasks[e])
        /\ tasks[e][k].pc \notin {"returned_ok", "returned_none"}
        /\ tasks'[e][k].pc \in {"returned_ok", "returned_none"}}

\* C31: the deque of completion times never holds more than 25 entries; a
\* worker that returns after setting its item to DOWNLOADED appends exactly
\* one time, at the end, dropping the oldest entry of a full deque, and holds
\* self.lock while it does; a worker that returns after setting TEMP_ERROR or
\* PERMANENT_ERROR, and every other step, leaves the deque as it is.
C31_WindowOfCompletions ==
    [][\A e \in Engines :
          LET q == download_times[e]
              ok == {k \in ReturnsNow(e) : tasks'[e][k].pc = "returned_ok"}
          IN  /\ Len(q) <= DownloadTimesMaxLen
              /\ Len(download_times'[e]) <= DownloadTimesMaxLen
              /\ IF ok = {}
                 THEN download_times'[e] = q
                 ELSE /\ Cardinality(ok) = 1
                      /\ lock[e] = "worker"
                      /\ \A k \in ok : status[tasks[e][k].item] = DOWNLOADED
                      /\ \E now \in {clock, clock + 1} :
                            download_times'[e] =
                                IF Len(q) < DownloadTimesMaxLen
                                THEN Append(q, now)
                                ELSE Append(Tail(q), now)]_vars

\* C31 witness: a worker has returned from a successful download into a deque
\* that was full: it still holds 25 entries, the last of them the new time.
C31_Witness ==
    /\ \E k \in 1 .. Len(tasks["e1"]) : tasks["e1"][k].pc = "returned_ok"
    /\ Len(download_times["e1"]) = DownloadTimesMaxLen
    /\ download_times["e1"][DownloadTimesMaxLen] = 1
    /\ download_times["e1"][1] = 0
    /\ \E i \in Items : status[i] = TEMP_ERROR /\ fetches[i] = 1

\* The items the first run of a process has brought to a status of set S: no
\* row is in a worker's hands before the run, so these are the rows of that
\* status that were fetched.
BroughtTo(S) == {i \in Items : fetches[i] > 0 /\ status[i] \in S}

\* C32: at every point of a run, the downloaded and download_errors values of
\* the dict stats() builds equal the number of items the run has brought to
\* DOWNLOADED and to an error status so far.
C32_StatsCountersFollowRun ==
    \A e \in Engines :
        (runCount[e] = 1 /\ runPc[e] # "off") =>
            /\ StatsDict(e).downloaded = Cardinality(BroughtTo({DOWNLOADED}))
            /\ StatsDict(e).download_errors =
                   Cardinality(BroughtTo({TEMP_ERROR, PERMANENT_ERROR}))

\* The futures of engine e that were submitted for item i.
TasksFor(e, i) == {k \in 1 .. Len(tasks[e]) : tasks[e][k].item = i}

\* The step is the first of run_verifier: mark_all_as_undownloaded.
ResetStep == ver.pc \in {"idle", "done"} /\ ver'.pc = "scan"

\* C33: while a row is TEMP_ERROR or PERMANENT_ERROR no step of a downloader
\* run submits it to a worker, fetches it or changes its status; its status
\* changes only in a step of the verifier, and becomes NOT_DOWNLOADED only in
\* the verifier's reset.
C33_ErrorRowsLeftAlone ==
    [][\A i \in Items :
          status[i] \in {TEMP_ERROR, PERMANENT_ERROR} =>
              /\ fetches'[i] = fetches[i]
              /\ \A e \in Engines :
                    Cardinality(TasksFor(e, i)') <= Cardinality(TasksFor(e, i))
              /\ status'[i] # status[i] => ver' # ver
              /\ status'[i] = NOT_DOWNLOADED => ResetStep]_vars

\* C33 witness: a worker set a row to PERMANENT_ERROR, the run went back to
\* get_batch and ended without it, the verifier's reset returned it to
\* NOT_DOWNLOADED, and the next run has claimed it.
C33_Witness ==
    \E i \in Items :
        /\ ver.before # <<>>
        /\ ver.before[1][i] = PERMANENT_ERROR
        /\ ver.before[2][i] = 1
        /\ status[i] = NOT_DOWNLOADED
        /\ runCount["e1"] = 2
        /\ TasksFor("e1", i) # {}

RECURSIVE Doubling(_, _)
\* The waits first, 2 * first, 4 * first, ..., n of them.
Doubling(first, n) ==
    IF n = 0 THEN <<>> ELSE << first >> \o Doubling(2 * first, n - 1)

\* C34: the backoff loop of _download_file ends for every list of responses:
\* the waits are 2, 4, 8, ... (one per 429 or 503 answered), none of them is
\* more than 64, the loop is left with an error as soon as the doubled wait
\* is more than 100, and it goes round again only after fewer than 6 requests.
C34_BackoffTerminates ==
    /\ loader.requests <= 6
    /\ loader.pc = "request" =>
          /\ loader.requests < 6
          /\ loader.requests = Len(loader.sleeps)
          /\ loader.sleep_duration <= SleepLimit
    /\ loader.sleeps = Doubling(InitialSleep, Len(loader.sleeps))
    /\ \A k \in 1 .. Len(loader.sleeps) : loader.sleeps[k] <= 64
    /\ loader.result = "timeout" <=>
          (loader.pc = "returned" /\ loader.sleep_duration > SleepLimit)
    /\ loader.pc = "returned" => loader.requests >= 1

\* C34 witness: a server that answered 429, then 503 to every request: the
\* call returned its timeout error after 6 requests and waits of 2 to 64.
C34_Witness ==
    /\ loader.pc = "returned"
    /\ loader.result = "timeout"
    /\ loader.responses = << 429, 503 >>
    /\ loader.requests = 6
    /\ loader.sleeps = << 2, 4, 8, 16, 32, 64 >>

\* C35: a worker whose ledger update meets "database is locked" returns, also
\* when the database stays locked: after at most 5 tries it records
\* TEMP_ERROR and gives up.  (A behaviour in which the lock is released
\* satisfies the formula at that moment.)
C35_LockedWorkerReturns ==
    \A i \in Items :
        TaskAt("e1", i, {"sleep"})
            ~> (TaskAt("e1", i, {"returned_ok", "returned_none"}) \/ ~locked)

\* C36: (no action of the model removes a file.)  In every state of a run
\* every item the run has set to DOWNLOADED has its file on disk, written by
\* a worker of the run; a worker that stands
\* between its write and its update(DOWNLOADED), the main thread interrupted
\* or not, has the file on disk and the row still NOT_DOWNLOADED.
C36_FileBeforeDownloaded ==
    /\ \A i \in Items :
          (status[i] = DOWNLOADED /\ fetches[i] > 0) =>
              (file[i] # <<>> /\ writes[i] > 0)
    /\ \A e \in Engines : \A k \in 1 .. Len(tasks[e]) :
          LET t == tasks[e][k]
          IN  (t.pc = "update" /\ t.new_status = DOWNLOADED) =>
                  /\ file[t.item] = << fetches[t.item] >>
                  /\ status[t.item] = NOT_DOWNLOADED

\* C36 witness: the main thread was interrupted while a worker stood between
\* the write and the update: the file is there and the row NOT_DOWNLOADED,
\* next to an item the run has set to DOWNLOADED.
C36_Witness ==
    /\ runPc["e1"] = "interrupted"
    /\ \E i, j \in Items :
          /\ TaskAt("e1", i, {"update"})
          /\ file[i] # <<>>
          /\ status[i] = NOT_DOWNLOADED
          /\ status[j] = DOWNLOADED
          /\ fetches[j] > 0

\* A sync pass, full or incremental, returns in this step.
PassCompletes ==
    /\ imp.pc \in {"count", "fetch", "max", "full_max"}
    /\ imp'.pc \in {"done", "no_new_records"}

\* The rows of cover_art that the import timestamp covers.
UpToCheckpoint ==
    {i \in Uploaded :
        /\ get_last_import_timestamp # NoDate
        /\ upstream[i] <= get_last_import_timestamp}

\* C37: when a sync pass returns, every row of the source whose date_uploaded
\* is not later than the import timestamp is a row of the ledger.
C37_LedgerCoversCheckpoint ==
    [][PassCompletes => \A i \in UpToCheckpoint' : BagIn(i, rows')]_vars

\* The rows whose file the scan of the verifier finds and can name.
Marked == {i \in OnDisk : CaaIdOf(Parts(i)) = << i >>}

\* C38: no step of the verifier changes the error, the release_mbid or the
\* set of rows of the ledger; and when a run of the verifier ends (nothing
\* else writing), every row is NOT_DOWNLOADED or DOWNLOADED: a row that was
\* TEMP_ERROR or PERMANENT_ERROR before the run is NOT_DOWNLOADED, and is
\* returned by get_batch again, unless the scan found its file.
C38_VerifyLeavesTwoStatuses ==
    [][/\ ver' # ver =>
             (error' = error /\ release_mbid' = release_mbid /\ rows' = rows)
       /\ (ver.pc = "summary" /\ ver'.pc = "done") =>
             \A i \in Items :
                 BagIn(i, rows) =>
                     /\ status'[i] \in {NOT_DOWNLOADED, DOWNLOADED}
                     /\ (ver.before[1][i] \in {TEMP_ERROR, PERMANENT_ERROR}
                             /\ i \notin Marked) =>
                            /\ status'[i] = NOT_DOWNLOADED
                            /\ i \in Range(get_batch(NOT_DOWNLOADED, NumItems))'
                            /\ error'[i] = "http"]_vars

\* C38 witness: the verifier has run over a ledger with a TEMP_ERROR row
\* without a file and a PERMANENT_ERROR row with one: the first is
\* NOT_DOWNLOADED, the second DOWNLOADED, both with their error text.
C38_Witness ==
    /\ ver.pc = "done"
    /\ \E i, j \in Items :
          /\ BagIn(i, rows) /\ BagIn(j, rows)
          /\ ver.before[1][i] = TEMP_ERROR /\ i \notin OnDisk
          /\ status[i] = NOT_DOWNLOADED /\ error[i] = "http"
          /\ ver.before[1][j] = PERMANENT_ERROR /\ j \in Marked
          /\ status[j] = DOWNLOADED /\ error[j] = "http"

\* C39: within one call of run_downloader an item is submitted to the pool at
\* most once: a step that submits item i is taken only when the run has not
\* submitted i before.
C39_DispatchedOncePerRun ==
    [][\A e \in Engines : \A i \in Items :
          Cardinality(TasksFor(e, i)') > Cardinality(TasksFor(e, i)) =>
              i \notin dispatched[e]]_vars

\* C40: a row that a worker of the downloader had set to DOWNLOADED when the
\* verifier started, its release_mbid a UUID of five groups and its file left
\* alone, is DOWNLOADED when the verifier has run: the caa_id parsed from the
\* name of the file the worker wrote is the caa_id of the row.
C40_DownloadVerifyRoundTrip ==
    ver.pc = "done" =>
        \A i \in Items :
            (/\ ver.before[1][i] = DOWNLOADED
             /\ ver.before[2][i] > 0
             /\ release_mbid[i] = UuidMbid) =>
                /\ CaaIdOf(Parts(i)) = << i >>
                /\ status[i] = DOWNLOADED

\* C40 witness: the run of the downloader wrote a file and set its row to
\* DOWNLOADED, and ended; then the verifier ran, reset the row and marked it
\* again from the file's name.
C40_Witness ==
    /\ ver.pc = "done"
    /\ runPc["e1"] = "done"
    /\ \E i \in Items :
          /\ ver.before[1][i] = DOWNLOADED
          /\ ver.before[2][i] = 1
          /\ fetches[i] = 1
          /\ writes[i] = 1
          /\ file[i] = << 1 >>
          /\ status[i] = DOWNLOADED
====
